---- MODULE Spec2Model ----
(***************************************************************************)
(* Mailbox synchronisation and mutation propagation of ace-mail            *)
(* (backend/app.py).  The model holds the rows of the `emails` table of    *)
(* one account (every query of the code is filtered by user_id, so the     *)
(* rows of different accounts never meet), the mailboxes of that account   *)
(* on the IMAP server, and the outcome of the last request.                *)
(*                                                                         *)
(* Every request handler is one action.  A handler is written as a pure    *)
(* operator over a context record `c` that carries the database session,   *)
(* the server mailboxes, the state of the imaplib connection and the local *)
(* variables of the handler.  An imaplib call that raises sets c.exc; the  *)
(* stages that follow are skipped until the enclosing `except` clears it.  *)
(***************************************************************************)
EXTENDS Integers, Sequences, FiniteSets, TLC

VARIABLES emails,    \* rows of the emails table (Email model) of the account
          nextId,    \* next primary key of the emails table
          server,    \* the account's IMAP server: mailbox names, host family
          mbox,      \* mailbox name -> messages [uid, msg, hdr, del]
          uidnext,   \* mailbox name -> next UID the mailbox issues
          nextMsg,   \* next message identity delivered to the server
          cap,       \* this behaviour: how far its counters grow, its network
          last,      \* outcome of the last request (response and command log)
          running    \* worker -> the sync request it is in the middle of

vars == <<emails, nextId, server, mbox, uidnext, nextMsg, cap, last, running>>

---------------------------------------------------------------------------
(* Bounds of the model *)

MaxMsgs == 2      \* messages delivered to the server
MaxUid == 2       \* highest UID a mailbox issues
MaxId == 2        \* highest primary key of the emails table
MaxLimit == 2     \* highest `limit` of a full sync request
MaxBulk == 2      \* rows named by one bulk request
FaultMsgs == 1    \* messages delivered in the behaviours of SpecFault
FaultUid == 1     \* highest UID a mailbox issues in SpecFault
FaultIds == 1     \* highest primary key in SpecFault
BatchExtra == 2   \* messages beyond one incremental batch in SpecBatch
MaxHdr == 1       \* distinct Message-ID header values (0 is "no header")
MaxProcs == 2     \* workers of the web server that handle requests at a time
MaxParts == 2     \* text/plain parts, and text/html parts, of a raw message
MaxOver == 1      \* characters of a part beyond the length of a preview

---------------------------------------------------------------------------
(* Program constants *)

IncrementalBatch == 20   \* email_uids_bytes[-20:]

None == 0                \* Python None for imap_uid / message_id_header

PreviewLen == 300        \* body_full[:300]

Min(a, b) == IF a < b THEN a ELSE b

SetMax(S) == CHOOSE x \in S : \A y \in S : y <= x

RECURSIVE SortedSeq(_)
\* the elements of a set of numbers in ascending order
SortedSeq(S) ==
  IF S = {} THEN <<>>
  ELSE LET m == SetMax(S) IN Append(SortedSeq(S \ {m}), m)

\* Python seq[-k:] : the last k elements; seq[-0:] is seq[0:], the whole list
LastSlice(seq, k) ==
  IF k = 0 \/ k >= Len(seq) THEN seq
  ELSE SubSeq(seq, Len(seq) - k + 1, Len(seq))

\* Python reversed(seq)
Reversed(seq) == [i \in 1..Len(seq) |-> seq[Len(seq) + 1 - i]]

---------------------------------------------------------------------------
(* Folder names *)

\* folder_mapping of sync_emails / sync_new_emails, with its .get default
SyncFolderMapping(folder) ==
  CASE folder = "inbox" -> "INBOX"
    [] folder = "sent" -> "Sent"
    [] folder = "drafts" -> "Drafts"
    [] folder = "trash" -> "Trash"
    [] folder = "spam" -> "Spam"
    [] OTHER -> "INBOX"

\* folder_mapping of delete / restore / archive / bulk, with its .get default
MutFolderMapping(folder) ==
  CASE folder = "inbox" -> "INBOX"
    [] folder = "sent" -> "[Gmail]/Sent Mail"
    [] folder = "drafts" -> "Drafts"
    [] folder = "trash" -> "Trash"
    [] folder = "spam" -> "Spam"
    [] OTHER -> "INBOX"

SyncSentFolders ==
  <<"[Gmail]/Sent Mail", "Sent", "Sent Items", "INBOX.Sent", "[Gmail]/Sent", "Sent Messages">>

MutSentFolders == <<"[Gmail]/Sent Mail", "Sent", "Sent Items", "INBOX.Sent">>

TrashFolders == <<"[Gmail]/Trash", "Trash", "Deleted Items", "INBOX.Trash">>

BulkTrashFolders == <<"[Gmail]/Trash", "Trash", "Deleted Items">>

ArchiveFolders == <<"[Gmail]/All Mail", "Archive", "INBOX.Archive", "Archived">>

BulkArchiveFolders == <<"[Gmail]/All Mail", "Archive", "INBOX.Archive">>

\* The servers of the model: a generic IMAP server, Gmail, and a server that
\* exposes nothing but INBOX under a generic and under a Gmail host name.
Servers ==
  { [folders |-> {"INBOX", "Sent", "Trash", "Archive"}, gmail |-> FALSE],
    [folders |-> {"INBOX", "[Gmail]/Sent Mail", "[Gmail]/Trash", "[Gmail]/All Mail"},
     gmail |-> TRUE],
    [folders |-> {"INBOX"}, gmail |-> FALSE],
    [folders |-> {"INBOX"}, gmail |-> TRUE] }

\* 'gmail' in user.imap_host.lower()
IsGmailHost == server.gmail

---------------------------------------------------------------------------
(* The imaplib connection.  c.sel is the selected mailbox ("" when the     *)
(* connection is in state AUTH), c.n counts the library calls made, c.r is *)
(* the status of the last call: "OK", "NO", or "EXC" when it raised.       *)

\* the element of a set of one element.  Only({e(x) : x \in {v}}) is e(v)
\* with v computed once: the way a statement binds its result to a name.
Only(S) == CHOOSE x \in S : TRUE

\* the call about to be made is the one the fault is injected at (0: none)
Faulty(c) == c.failAt # 0 /\ c.n + 1 = c.failAt

Entry(c, cmd, uid, box, r) ==
  [cmd |-> cmd, uid |-> uid, box |-> box, sel |-> c.sel, r |-> r]

\* a call that ends with status r: logged, counted; r = "EXC" raises
Done(c, cmd, uid, box, r) ==
  [c EXCEPT !.n = @ + 1,
            !.r = r,
            !.exc = (r = "EXC"),
            !.hit = @ \/ Faulty(c),
            !.cmds = Append(@, Entry(c, cmd, uid, box, r))]

\* status of a faulty call: it raises, or answers NO when the library
\* hands a NO answer back to the caller
FaultStatus(c, mayNo) == IF mayNo /\ c.failNo THEN "NO" ELSE "EXC"

\* imaplib.IMAP4_SSL(host, port)
Connect(c0) ==
  Only({ IF c.exc THEN c
         ELSE IF Faulty(c) THEN Done(c, "connect", 0, "", "EXC")
         ELSE Done(c, "connect", 0, "", "OK") : c \in {c0} })

\* mail.login(user, password): a NO answer raises IMAP4.error
Login(c0) ==
  Only({ IF c.exc THEN c
         ELSE IF Faulty(c) THEN Done(c, "login", 0, "", "EXC")
         ELSE Done(c, "login", 0, "", "OK") : c \in {c0} })

\* mail.logout()
Logout(c0) ==
  Only({ IF c.exc THEN c
         ELSE IF Faulty(c) THEN Done(c, "logout", 0, "", FaultStatus(c, TRUE))
         ELSE Done(c, "logout", 0, "", "OK") : c \in {c0} })

\* mail.list()
List(c0) ==
  Only({ IF c.exc THEN c
         ELSE IF Faulty(c) THEN Done(c, "list", 0, "", FaultStatus(c, TRUE))
         ELSE Done(c, "list", 0, "", "OK") : c \in {c0} })

\* mail.select(name): a NO answer leaves the connection in state AUTH; a
\* call that raises leaves the library's state as it was
Select(c0, name) ==
  Only({ IF c.exc THEN c
         ELSE IF Faulty(c) THEN
           [Done(c, "select", 0, name, FaultStatus(c, TRUE))
              EXCEPT !.sel = IF FaultStatus(c, TRUE) = "NO" THEN "" ELSE @]
         ELSE IF name \in server.folders THEN
           [Done(c, "select", 0, name, "OK") EXCEPT !.sel = name]
         ELSE [Done(c, "select", 0, name, "NO") EXCEPT !.sel = ""] : c \in {c0} })

\* UIDs of the messages of mailbox box
Uids(mb, box) == {m.uid : m \in mb[box]}

\* mail.uid('search', None, 'ALL'): illegal in state AUTH
SearchAll(c0) ==
  Only({ IF c.exc THEN c
         ELSE IF c.sel = "" THEN Done(c, "search", 0, "", "EXC")
         ELSE IF Faulty(c) THEN Done(c, "search", 0, "", FaultStatus(c, TRUE))
         ELSE [Done(c, "search", 0, "", "OK") EXCEPT !.data = SortedSeq(Uids(c.mbox, c.sel))]
         : c \in {c0} })

\* mail.uid('search', None, 'UID lo:*'): '*' is the highest UID of the
\* mailbox, so the range lo:* always holds that UID, also when it is below lo
SearchFrom(c0, lo) ==
  Only({ IF c.exc THEN c
         ELSE IF c.sel = "" THEN Done(c, "search", lo, "", "EXC")
         ELSE IF Faulty(c) THEN Done(c, "search", lo, "", FaultStatus(c, TRUE))
         ELSE [Done(c, "search", lo, "", "OK") EXCEPT
                 !.data = SortedSeq({u \in Uids(c.mbox, c.sel) :
                                       u >= lo \/ u = SetMax(Uids(c.mbox, c.sel))})]
         : c \in {c0} })

\* mail.uid('fetch', uid, '(RFC822)') and the parsing of its answer.  The NO
\* answer stands for every way one message fails without raising out of the
\* loop: status not OK, no data, mailparser raising, the insert raising; the
\* handler goes on with the next UID after each of them.
Fetch(c0, uid) ==
  Only({ IF c.exc THEN c
         ELSE IF c.sel = "" THEN Done(c, "fetch", uid, "", "EXC")
         ELSE IF Faulty(c) THEN Done(c, "fetch", uid, "", FaultStatus(c, TRUE))
         ELSE Done(c, "fetch", uid, "", "OK") : c \in {c0} })

\* the copies UID COPY makes in mailbox target: the copy of a message gets
\* the next UID of the target mailbox
Copies(c, uid, target) ==
  {[uid |-> c.uidnext[target], msg |-> m.msg, hdr |-> m.hdr, del |-> m.del]
     : m \in {x \in c.mbox[c.sel] : x.uid = uid}}

\* mail.uid('copy', uid, target): NO when the target mailbox does not exist
Copy(c0, uid, target) ==
  Only({ IF c.exc THEN c
         ELSE IF c.sel = "" THEN Done(c, "copy", uid, target, "EXC")
         ELSE IF Faulty(c) THEN Done(c, "copy", uid, target, FaultStatus(c, TRUE))
         ELSE IF target \notin server.folders THEN Done(c, "copy", uid, target, "NO")
         ELSE [Done(c, "copy", uid, target, "OK") EXCEPT
                 !.mbox[target] = @ \cup Copies(c, uid, target),
                 !.uidnext[target] = IF Copies(c, uid, target) = {} THEN @ ELSE @ + 1]
         : c \in {c0} })

\* mail.uid('store', uid, '+FLAGS', '\\Deleted')
Store(c0, uid) ==
  Only({ IF c.exc THEN c
         ELSE IF c.sel = "" THEN Done(c, "store", uid, "", "EXC")
         ELSE IF Faulty(c) THEN Done(c, "store", uid, "", FaultStatus(c, TRUE))
         ELSE [Done(c, "store", uid, "", "OK") EXCEPT
                 !.mbox[c.sel] = {IF m.uid = uid THEN [m EXCEPT !.del = TRUE] ELSE m : m \in @}]
         : c \in {c0} })

\* mail.expunge(): removes every message of the selected mailbox that
\* carries the \Deleted flag
Expunge(c0) ==
  Only({ IF c.exc THEN c
         ELSE IF c.sel = "" THEN Done(c, "expunge", 0, "", "EXC")
         ELSE IF Faulty(c) THEN Done(c, "expunge", 0, "", FaultStatus(c, TRUE))
         ELSE [Done(c, "expunge", 0, "", "OK") EXCEPT !.mbox[c.sel] = {m \in @ : ~m.del}]
         : c \in {c0} })

\* an `except` clause: the exception stops here
Caught(c) == [c EXCEPT !.exc = FALSE]

\* What can go wrong in one request: the library call number `at` raises, or
\* answers NO when `no` (at = 0: nothing goes wrong).  At most one per request.
NoFault == [at |-> 0, no |-> FALSE]

\* the faults that can happen in a request that makes n library calls when
\* nothing goes wrong
FaultsIn(n) == {NoFault} \cup {[at |-> k, no |-> b] : k \in 1..n, b \in BOOLEAN}

\* the faults of a request of this behaviour: none on a network on which no
\* library call fails
Faults(n) == IF cap.faults THEN FaultsIn(n) ELSE {NoFault}

\* the context a handler starts from
Context(fault) ==
  [emails |-> emails, nextId |-> nextId, mbox |-> mbox, uidnext |-> uidnext,
   sel |-> "", n |-> 0, failAt |-> fault.at, failNo |-> fault.no,
   r |-> "OK", exc |-> FALSE, hit |-> FALSE, cmds |-> <<>>, data |-> <<>>,
   cur |-> "", found |-> "", ok |-> FALSE, count |-> 0, fetched |-> 0,
   new |-> <<>>, status |-> "", ops |-> <<>>, local |-> 0, remote |-> 0]

\* the handler returns with this status, or with 'error' from its outer
\* `except` when an exception is on its way
Finish(c0, status) ==
  Only({ [c EXCEPT !.status = IF c.exc THEN "error" ELSE status] : c \in {c0} })

---------------------------------------------------------------------------
(* The emails table *)

\* a lookup by UID that finds no row
NeverByUid(db, uid) == FALSE

\* Email.query.filter_by(user_id=user.id, imap_uid=uid).first() is not None
ExistsByUid(db, uid) == \E e \in db : e.imap_uid = uid

\* a lookup by Message-ID that finds no row
NeverByMsgId(db, h) == FALSE

\* Email.query.filter_by(user_id=user.id, message_id_header=h).first() is not None
ExistsByMsgId(db, h) == \E e \in db : e.message_id_header = h

\* an existing row that stops the insert only when one of the two rows is
\* in inbox and the other in trash or archive, or when both folders are equal
SkipInboxPairsOnly(x, folder) ==
  IF x.folder # folder
  THEN IF x.folder \in {"trash", "archive"} /\ folder = "inbox" THEN TRUE
       ELSE IF x.folder = "inbox" /\ folder \in {"trash", "archive"} THEN TRUE
       ELSE FALSE
  ELSE TRUE

\* the branches both handlers go through for the row x a lookup found while
\* `folder` is synced: TRUE when the branch ends in `continue`
SkipExisting(x, folder) ==
  IF x.folder # folder
  THEN IF x.folder \in {"trash", "archive"} /\ folder = "inbox" THEN TRUE
       ELSE IF x.folder = "inbox" /\ folder \in {"trash", "archive"} THEN TRUE
       ELSE TRUE
  ELSE TRUE

\* existing_email_by_uid = ...first(); if existing_email_by_uid: ... continue
SkipByUid(db, uid, folder) ==
  ExistsByUid(db, uid) /\ \E x \in db : x.imap_uid = uid /\ SkipExisting(x, folder)

\* existing_email_by_msg_id = ...first(); if existing_email_by_msg_id: ... continue
SkipByMsgId(db, h, folder) ==
  ExistsByMsgId(db, h) /\ \E x \in db : x.message_id_header = h /\ SkipExisting(x, folder)

\* the decision of both handlers for a message with UID uid and Message-ID
\* h of the folder being synced: TRUE when no row is inserted for it
CodeSkips(db, uid, h, folder) ==
  SkipByUid(db, uid, folder) \/ (h # None /\ SkipByMsgId(db, h, folder))

\* Email(...) as both sync handlers build it; msg, box and origin record
\* which server message the row was read from, in which mailbox, and the
\* folder it was stored with
NewEmail(c, m, folder) ==
  [id |-> c.nextId, folder |-> folder, imap_uid |-> m.uid,
   message_id_header |-> m.hdr, msg |-> m.msg, box |-> c.sel, origin |-> folder]

\* the message of the selected mailbox that carries UID uid
MessageAt(c, uid) == CHOOSE m \in c.mbox[c.sel] : m.uid = uid

\* db.session.add(new_email); db.session.commit()
Insert(c, m, folder) ==
  [c EXCEPT !.emails = @ \cup {NewEmail(c, m, folder)},
            !.nextId = @ + 1,
            !.count = @ + 1,
            !.new = Append(@, m.uid)]

---------------------------------------------------------------------------
(* Folder selection of the two sync handlers *)

RECURSIVE ProbeSelect(_, _, _)
\* for name in names: try: status = mail.select(name); if OK: found; break
\*                     except: continue
ProbeSelect(c0, names, i) ==
  Only({ IF c.exc \/ i > Len(names) THEN c
         ELSE Only({ IF d.exc THEN ProbeSelect(Caught(d), names, i + 1)
                     ELSE IF d.r = "OK" THEN [d EXCEPT !.found = names[i]]
                     ELSE ProbeSelect(d, names, i + 1)
                     : d \in {Select(c, names[i])} })
         : c \in {c0} })

\* the fallback of a select that answered NO, inside the same try:
\* mail.select('INBOX'), and once more in the except when that raises
InboxAfterNo(c0) ==
  Only({ [(IF b.exc THEN Select(Caught(b), "INBOX") ELSE b) EXCEPT !.cur = "INBOX"]
         : b \in {Select(c0, "INBOX")} })

\* try: status = mail.select(name); if status != 'OK': mail.select('INBOX')
\* except: mail.select('INBOX')
\* c.cur is the mailbox the handler takes as the current one afterwards
SelectOrInbox(c0, name) ==
  Only({ IF c.exc THEN c
         ELSE Only({ IF a.exc THEN [Select(Caught(a), "INBOX") EXCEPT !.cur = "INBOX"]
                     ELSE IF a.r = "OK" THEN [a EXCEPT !.cur = name]
                     ELSE InboxAfterNo(a)
                     : a \in {Select(c, name)} })
         : c \in {c0} })

---------------------------------------------------------------------------
(* sync_emails: full sync *)

\* the Message-ID lookup and the insert of a fetched message
StoreFull(c0, uid, folder) ==
  Only({ IF m.hdr # None /\ SkipByMsgId(d.emails, m.hdr, folder) THEN d
         ELSE [Insert(d, m, folder) EXCEPT !.fetched = @ + 1]
         : d \in {c0}, m \in {MessageAt(c0, uid)} })

\* a loop body that gives the row it finds by UID the folder being synced
IngestFullMoving(c0, uid, folder) ==
  Only({ IF SkipByUid(c.emails, uid, folder)
         THEN [c EXCEPT !.emails = {IF e.imap_uid = uid THEN [e EXCEPT !.folder = folder]
                                    ELSE e : e \in @}]
         ELSE Only({ IF d.exc \/ d.r # "OK" THEN d ELSE StoreFull(d, uid, folder)
                     : d \in {Fetch(c, uid)} })
         : c \in {c0} })

\* the body of the loop of sync_emails for one UID
IngestFull(c0, uid, folder) ==
  Only({ IF SkipByUid(c.emails, uid, folder) THEN c
         ELSE Only({ IF d.exc \/ d.r # "OK" THEN d ELSE StoreFull(d, uid, folder)
                     : d \in {Fetch(c, uid)} })
         : c \in {c0} })

RECURSIVE FullLoop(_, _, _, _, _)
\* for uid in reversed(uids[-limit:]): ...; fetched_count += 1;
\* if fetched_count >= limit: break
FullLoop(c0, uids, i, folder, limit) ==
  Only({ IF c.exc \/ i > Len(uids) THEN c
         ELSE Only({ IF d.exc THEN d
                     ELSE IF d.fetched > c.fetched /\ d.fetched >= limit THEN d
                     ELSE FullLoop(d, uids, i + 1, folder, limit)
                     : d \in {IngestFull(c, uids[i], folder)} })
         : c \in {c0} })

\* the selection of the mailbox of sync_emails
SyncSelect(c0, folder) ==
  Only({ IF c.exc THEN c
         ELSE IF folder = "sent" THEN ProbeSelect(Caught(List(c)), SyncSentFolders, 1)
         ELSE SelectOrInbox(c, SyncFolderMapping(folder))
         : c \in {c0} })

\* sync_emails from the answer of the search on: the loop and the logout
SyncIngest(c0, folder, limit) ==
  Only({ IF c.exc THEN Finish(c, "error")
         ELSE IF c.r # "OK" THEN Finish(Logout(c), "error")
         ELSE Only({ Finish(Logout(FullLoop(c, uids, 1, folder, limit)), "success")
                     : uids \in {Reversed(LastSlice(c.data, limit))} })
         : c \in {c0} })

\* sync_emails after the credential checks
sync_emails(folder, limit, fault) ==
  Only({ IF c.exc THEN Finish(c, "error")
         ELSE IF folder = "sent" /\ c.found = ""
           THEN Finish(Logout(Select(c, "INBOX")), "warning")
         ELSE SyncIngest(SearchAll(c), folder, limit)
         : c \in {SyncSelect(Login(Connect(Context(fault))), folder)} })

---------------------------------------------------------------------------
(* sync_new_emails: incremental sync *)

\* Email.query.filter_by(user_id, folder).order_by(Email.imap_uid.desc()).first()
\* and last_uid = latest_email.imap_uid if latest_email else 0.  PostgreSQL
\* sorts NULL first in descending order: a row without UID is the first row.
LastUid(db, folder) ==
  IF {e \in db : e.folder = folder} = {} THEN 0
  ELSE IF \E e \in db : e.folder = folder /\ e.imap_uid = None THEN None
  ELSE SetMax({e.imap_uid : e \in {x \in db : x.folder = folder}})

\* latest_email is a row whose imap_uid is None: `last_uid > 0` raises TypeError
CursorIsNone(db, folder) == \E e \in db : e.folder = folder /\ e.imap_uid = None

\* the Message-ID lookup and the insert of a fetched message
StoreNew(c0, uid, folder) ==
  Only({ IF m.hdr # None /\ SkipByMsgId(d.emails, m.hdr, folder) THEN d
         ELSE Insert(d, m, folder)
         : d \in {c0}, m \in {MessageAt(c0, uid)} })

\* the body of the loop without the comparison of the UID with the cursor
IngestNewUnguarded(c0, uid, folder, last_uid) ==
  Only({ IF SkipByUid(c.emails, uid, folder) THEN c
         ELSE Only({ IF d.exc \/ d.r # "OK" THEN d ELSE StoreNew(d, uid, folder)
                     : d \in {Fetch(c, uid)} })
         : c \in {c0} })

\* the body of the loop of sync_new_emails for one UID
IngestNew(c0, uid, folder, last_uid) ==
  Only({ IF uid <= last_uid THEN c
         ELSE IF SkipByUid(c.emails, uid, folder) THEN c
         ELSE Only({ IF d.exc \/ d.r # "OK" THEN d ELSE StoreNew(d, uid, folder)
                     : d \in {Fetch(c, uid)} })
         : c \in {c0} })

RECURSIVE NewLoop(_, _, _, _, _)
\* for uid_bytes in reversed(email_uids_bytes[-20:]): ...
NewLoop(c0, uids, i, folder, last_uid) ==
  Only({ IF c.exc \/ i > Len(uids) THEN c
         ELSE NewLoop(IngestNew(c, uids[i], folder, last_uid), uids, i + 1, folder, last_uid)
         : c \in {c0} })

\* a Python exception that is no library call: the handler's `except` sees it
Raise(c) == [c EXCEPT !.exc = TRUE]

\* the selection of the mailbox of sync_new_emails
NewSelect(c0, folder) ==
  Only({ IF c.exc THEN c
         ELSE IF folder = "sent" THEN ProbeSelect(c, SyncSentFolders, 1)
         ELSE SelectOrInbox(c, SyncFolderMapping(folder))
         : c \in {c0} })

\* sync_new_emails from the answer of the search on: the loop and the logout
NewIngest(c0, folder, last_uid) ==
  Only({ IF c.exc THEN Finish(c, "error")
         ELSE IF c.r # "OK" THEN Finish(Logout(c), "error")
         ELSE Only({ Finish(Logout(NewLoop(c, uids, 1, folder, last_uid)), "success")
                     : uids \in {Reversed(LastSlice(c.data, IncrementalBatch))} })
         : c \in {c0} })

\* sync_new_emails after the credential checks
sync_new_emails(folder, fault) ==
  Only({ IF c.exc THEN Finish(c, "error")
         ELSE IF folder = "sent" /\ c.found = "" THEN Finish(Logout(c), "warning")
         ELSE IF CursorIsNone(emails, folder) THEN Finish(Raise(c), "error")
         ELSE NewIngest(IF last_uid > 0 THEN SearchFrom(c, last_uid + 1) ELSE SearchAll(c),
                        folder, last_uid)
         : c \in {NewSelect(Login(Connect(Context(fault))), folder)},
           last_uid \in {LastUid(emails, folder)} })

---------------------------------------------------------------------------
(* Changes of rows in the database session *)

\* Email.query.filter_by(id=email_id, user_id=user.id).first()
EmailById(db, id) == CHOOSE e \in db : e.id = id

\* email.folder = f
SetFolder(c, id, f) ==
  [c EXCEPT !.emails = {IF e.id = id THEN [e EXCEPT !.folder = f] ELSE e : e \in @}]

\* db.session.delete(email)
DeleteRow(c, id) == [c EXCEPT !.emails = {e \in @ : e.id # id}]

\* email.folder as the handler reads it now; a row the session has already
\* deleted was deleted because it was in trash or the delete was permanent
InTrashNow(c, id) == \A e \in c.emails : e.id = id => e.folder = "trash"

\* the handler's status: 'success' if imap_success else 'warning'
Outcome(c) == [c EXCEPT !.status = IF c.ok THEN "success" ELSE "warning"]

\* the sent candidates of a mutation: the first that answers OK is current
SelectSent(c0, folder) ==
  Only({ [p EXCEPT !.cur = IF p.found # "" THEN p.found ELSE MutFolderMapping(folder)]
         : p \in {ProbeSelect([c0 EXCEPT !.found = ""], MutSentFolders, 1)} })

\* selection of the mailbox the row's folder maps to (delete and archive)
SelectCurrent(c0, folder) ==
  Only({ IF c.exc THEN c
         ELSE IF folder = "sent" THEN SelectSent(c, folder)
         ELSE SelectOrInbox(c, MutFolderMapping(folder))
         : c \in {c0} })

---------------------------------------------------------------------------
(* delete_email *)

\* the local-only change of a delete
DeleteLocal(c0, id, permanent) ==
  Only({ IF permanent \/ InTrashNow(c, id) THEN DeleteRow(c, id)
         ELSE SetFolder(c, id, "trash")
         : c \in {c0} })

\* try: copy, store, expunge  except: store
CopyToTrash(c0, uid) ==
  Only({ IF c.exc THEN c
         ELSE Only({ IF x.exc THEN Store(Caught(x), uid) ELSE x
                     : x \in {Expunge(Store(Copy(c, uid, c.found), uid))} })
         : c \in {c0} })

\* if trash_folder_found: select the current folder again and move
\* else: flag only
MoveOrFlag(c0, uid) ==
  Only({ IF p.found # "" THEN CopyToTrash(Select(p, p.cur), uid) ELSE Store(p, uid)
         : p \in {c0} })

\* a delete for good that keeps the row, with folder trash
DeleteForGoodKeepsRow(c0, email) ==
  Only({ IF x.exc THEN x ELSE [SetFolder(x, email.id, "trash") EXCEPT !.ok = TRUE]
         : x \in {Expunge(Store(c0, email.imap_uid))} })

\* permanent delete on the server, then db.session.delete(email)
DeleteForGood(c0, email) ==
  Only({ IF x.exc THEN x ELSE [DeleteRow(x, email.id) EXCEPT !.ok = TRUE]
         : x \in {Expunge(Store(c0, email.imap_uid))} })

\* move to trash on the server, then email.folder = 'trash'
DeleteToTrash(c0, email) ==
  Only({ IF x.exc THEN x ELSE [SetFolder(x, email.id, "trash") EXCEPT !.ok = TRUE]
         : x \in {MoveOrFlag(ProbeSelect([c0 EXCEPT !.found = ""], TrashFolders, 1),
                             email.imap_uid)} })

\* the branch `if email.imap_uid:` of delete_email
DeleteRemote(c0, email, permanent) ==
  Only({ IF c.exc THEN c
         ELSE IF permanent \/ email.folder = "trash" THEN DeleteForGood(c, email)
         ELSE DeleteToTrash(c, email)
         : c \in {c0} })

\* if email.imap_uid: ... else: the local change
DeleteBody(c0, email, permanent) ==
  Only({ IF email.imap_uid # None THEN DeleteRemote(c, email, permanent)
         ELSE IF c.exc THEN c
         ELSE DeleteLocal(c, email.id, permanent)
         : c \in {c0} })

\* the `except` of delete_email: the local change once more
DeleteExcept(c0, id, permanent) ==
  Only({ IF c.exc THEN DeleteLocal(Caught(c), id, permanent) ELSE c : c \in {c0} })

\* delete_email for an existing row
delete_email(id, permanent, imap_available, fault) ==
  Only({ IF ~imap_available
           THEN [DeleteLocal(Context(fault), id, permanent) EXCEPT !.status = "success"]
         ELSE Outcome(DeleteExcept(Logout(DeleteBody(
                  SelectCurrent(Login(Connect(Context(fault))), email.folder),
                  email, permanent)), id, permanent))
         : email \in {EmailById(emails, id)} })

---------------------------------------------------------------------------
(* restore_email *)

\* try: copy to INBOX, store, expunge; imap_success = True  except: log
RestoreRemote(c0, uid) ==
  Only({ IF c.exc THEN c
         ELSE Only({ IF x.exc THEN Caught(x) ELSE [x EXCEPT !.ok = TRUE]
                     : x \in {Expunge(Store(Copy(c, uid, MutFolderMapping("inbox")), uid))} })
         : c \in {c0} })

\* the trash candidate that answered OK is selected a second time; INBOX
\* when there is none
SelectFound(c0) ==
  Only({ IF p.exc THEN p
         ELSE IF p.found = "" THEN [Select(p, "INBOX") EXCEPT !.found = "INBOX"]
         ELSE Select(p, p.found)
         : p \in {c0} })

\* selection of the trash mailbox of restore_email
SelectTrash(c0) ==
  Only({ IF c.exc THEN c
         ELSE SelectFound(ProbeSelect([c EXCEPT !.found = ""], TrashFolders, 1))
         : c \in {c0} })

\* if email.imap_uid: the move back
RestoreBody(c0, email) ==
  Only({ IF email.imap_uid # None THEN RestoreRemote(c, email.imap_uid) ELSE c
         : c \in {c0} })

\* a restore that does not look at the folder of the row
RestoreFromAnyFolder(id, imap_available, fault) ==
  Only({ IF ~imap_available
           THEN [SetFolder(Context(fault), id, "inbox") EXCEPT !.status = "success"]
         ELSE Outcome(SetFolder(Caught(Logout(RestoreBody(
                  SelectTrash(Login(Connect(Context(fault)))), email))), id, "inbox"))
         : email \in {EmailById(emails, id)} })

\* restore_email for an existing row
restore_email(id, imap_available, fault) ==
  Only({ IF email.folder # "trash" THEN [Context(fault) EXCEPT !.status = "error"]
         ELSE IF ~imap_available
           THEN [SetFolder(Context(fault), id, "inbox") EXCEPT !.status = "success"]
         ELSE Outcome(SetFolder(Caught(Logout(RestoreBody(
                  SelectTrash(Login(Connect(Context(fault)))), email))), id, "inbox"))
         : email \in {EmailById(emails, id)} })

---------------------------------------------------------------------------
(* archive_email *)

\* try: copy, store, expunge; imap_success = True  except: log
MoveToFound(c0, uid) ==
  Only({ IF c.exc THEN c
         ELSE Only({ IF x.exc THEN Caught(x) ELSE [x EXCEPT !.ok = TRUE]
                     : x \in {Expunge(Store(Copy(c, uid, c.found), uid))} })
         : c \in {c0} })

\* try: select INBOX, store, expunge; imap_success = True  except: log
GmailArchive(c0, uid) ==
  Only({ IF c.exc THEN c
         ELSE Only({ IF x.exc THEN Caught(x) ELSE [x EXCEPT !.ok = TRUE]
                     : x \in {Expunge(Store(Select(c, "INBOX"), uid))} })
         : c \in {c0} })

\* if archive_folder_found: move  else: the Gmail way on a Gmail host
ArchiveFound(c0, uid) ==
  Only({ IF p.found # "" THEN MoveToFound(Select(p, p.cur), uid)
         ELSE IF IsGmailHost THEN GmailArchive(p, uid)
         ELSE p
         : p \in {c0} })

\* the branch `if email.imap_uid:` of archive_email
ArchiveRemote(c0, uid) ==
  Only({ IF c.exc THEN c
         ELSE ArchiveFound(ProbeSelect([c EXCEPT !.found = ""], ArchiveFolders, 1), uid)
         : c \in {c0} })

\* if email.imap_uid: the move
ArchiveBody(c0, email) ==
  Only({ IF email.imap_uid # None THEN ArchiveRemote(c, email.imap_uid) ELSE c
         : c \in {c0} })

\* archive_email for an existing row
archive_email(id, imap_available, fault) ==
  Only({ IF ~imap_available
           THEN [SetFolder(Context(fault), id, "archive") EXCEPT !.status = "success"]
         ELSE Outcome(SetFolder(Caught(Logout(ArchiveBody(
                  SelectCurrent(Login(Connect(Context(fault))), email.folder),
                  email))), id, "archive"))
         : email \in {EmailById(emails, id)} })

---------------------------------------------------------------------------
(* bulk_email_action *)

\* email.folder of a row of the session
FolderNow(c, id) == EmailById(c.emails, id).folder

\* imap_operations.append((operation, email.imap_uid, source_folder))
AddOperation(c, e, operation, source_folder, imap_available) ==
  IF imap_available /\ e.imap_uid # None
  THEN [c EXCEPT !.ops = Append(@, [op |-> operation, uid |-> e.imap_uid,
                                    src |-> source_folder])]
  ELSE c

\* email.folder = 'trash', then the append, which reads email.folder
BulkTrash(c0, e, imap_available) ==
  Only({ AddOperation(d, e, "delete", FolderNow(d, e.id), imap_available)
         : d \in {SetFolder(c0, e.id, "trash")} })

\* the first loop of bulk_email_action for one row: the local change
BulkLocal(c0, e, action, imap_available) ==
  Only({ CASE action = "delete" ->
                [(IF e.folder = "trash" THEN DeleteRow(c, e.id)
                  ELSE BulkTrash(c, e, imap_available)) EXCEPT !.local = @ + 1]
           [] action = "archive" ->
                [AddOperation(SetFolder(c, e.id, "archive"), e, "archive", e.folder,
                              imap_available) EXCEPT !.local = @ + 1]
           [] action = "restore" ->
                IF e.folder = "trash"
                THEN [AddOperation(SetFolder(c, e.id, "inbox"), e, "restore", e.folder,
                                   imap_available) EXCEPT !.local = @ + 1]
                ELSE c
           [] OTHER -> c
         : c \in {c0} })

RECURSIVE BulkLocalLoop(_, _, _, _)
\* for email in emails: rows in the order of their primary key
BulkLocalLoop(c0, ids, action, imap_available) ==
  Only({ IF todo = {} THEN c
         ELSE Only({ BulkLocalLoop(BulkLocal(c, e, action, imap_available),
                                   todo \ {e.id}, action, imap_available)
                     : e \in {EmailById(emails, CHOOSE x \in todo : \A y \in todo : x <= y)} })
         : c \in {c0}, todo \in {ids} })

RECURSIVE BulkTryMove(_, _, _, _, _)
\* for name in names: try: select(name); select(back); copy(uid, name);
\*                         store; expunge; found; break   except: continue
BulkTryMove(c0, names, i, uid, back) ==
  Only({ IF c.exc \/ i > Len(names) THEN c
         ELSE Only({ IF x.exc THEN BulkTryMove(Caught(x), names, i + 1, uid, back)
                     ELSE [x EXCEPT !.found = names[i]]
                     : x \in {Expunge(Store(Copy(Select(Select(c, names[i]), back),
                                                 uid, names[i]), uid))} })
         : c \in {c0} })

\* if not trash_found: flag only
BulkFlag(c0, uid) ==
  Only({ IF m.found = "" THEN Store(m, uid) ELSE m : m \in {c0} })

\* if not archived and the host is Gmail: the Gmail way
BulkGmail(c0, uid) ==
  Only({ IF m.found = "" /\ IsGmailHost THEN Expunge(Store(Select(m, "INBOX"), uid)) ELSE m
         : m \in {c0} })

\* the remote part of one operation of the batch, inside its try
BulkOperation(c0, o) ==
  Only({ CASE o.op = "delete" ->
                IF o.src = "trash" THEN Expunge(Store(s, o.uid))
                ELSE BulkFlag(BulkTryMove(s, BulkTrashFolders, 1, o.uid, back), o.uid)
           [] o.op = "archive" ->
                BulkGmail(BulkTryMove(s, BulkArchiveFolders, 1, o.uid, back), o.uid)
           [] OTHER -> Expunge(Store(Copy(s, o.uid, "INBOX"), o.uid))
         : s \in {Select([c0 EXCEPT !.found = ""], MutFolderMapping(o.src))},
           back \in {MutFolderMapping(o.src)} })

RECURSIVE BulkRemoteLoop(_, _)
\* for operation, uid, source_folder in imap_operations:
\*   try: ...; imap_success_count += 1   except: continue
BulkRemoteLoop(c0, i) ==
  Only({ IF c.exc \/ i > Len(c.ops) THEN c
         ELSE Only({ BulkRemoteLoop(IF x.exc THEN Caught(x) ELSE [x EXCEPT !.remote = @ + 1],
                                    i + 1)
                     : x \in {BulkOperation(c, c.ops[i])} })
         : c \in {c0} })

\* the status of a batch that had remote operations
BulkOutcome(c0) ==
  Only({ [c EXCEPT !.status = IF c.remote = Len(c.ops) THEN "success" ELSE "warning"]
         : c \in {c0} })

\* bulk_email_action for a non-empty set of existing rows
bulk_email_action(ids, action, imap_available, fault) ==
  Only({ IF imap_available /\ c.ops # <<>>
           THEN BulkOutcome(Caught(Logout(BulkRemoteLoop(Login(Connect(c)), 1))))
         ELSE [c EXCEPT !.status = "success"]
         : c \in {BulkLocalLoop(Context(fault), ids, action, imap_available)} })

---------------------------------------------------------------------------
(* The response of a request *)

NoCall ==
  [op |-> "none", folder |-> "", limit |-> 0, id |-> 0, permanent |-> FALSE,
   status |-> "", count |-> 0, new |-> <<>>, cmds |-> <<>>, clean |-> TRUE,
   before |-> {}, cursor |-> 0, configured |-> TRUE, ids |-> {}, action |-> "",
   local |-> 0, remote |-> 0, ops |-> <<>>, box |-> "", mboxes |-> <<>>]

\* the folders a sync request names
SyncFolders == {"inbox", "sent", "trash", "archive"}

\* the mailboxes the server receives messages in
DeliverBoxes == {"INBOX"}

\* the sets of rows a bulk request names
BulkSets == {S \in SUBSET {e.id : e \in emails} : S # {} /\ Cardinality(S) <= MaxBulk}

\* the counters stay within the bounds of the model
WithinBounds(c) ==
  /\ c.nextId <= cap.id + 1
  /\ \A b \in DOMAIN c.uidnext : c.uidnext[b] <= cap.uid + 1

\* what a handler leaves behind
Commit(c) ==
  /\ emails' = c.emails
  /\ nextId' = c.nextId
  /\ mbox' = c.mbox
  /\ uidnext' = c.uidnext

---------------------------------------------------------------------------
(* Actions *)

\* a message arrives in a mailbox of the server
Deliver ==
  /\ last = NoCall
  /\ \E box \in DeliverBoxes \cap server.folders, h \in 0..MaxHdr :
      /\ nextMsg <= cap.msgs
      /\ uidnext[box] <= cap.uid
      /\ mbox' = [mbox EXCEPT ![box] =
                    @ \cup {[uid |-> uidnext[box], msg |-> nextMsg, hdr |-> h, del |-> FALSE]}]
      /\ uidnext' = [uidnext EXCEPT ![box] = @ + 1]
      /\ nextMsg' = nextMsg + 1
      /\ UNCHANGED <<emails, nextId, server, cap, last, running>>

\* POST /api/emails/sync
FullSync ==
  /\ last = NoCall
  /\ \E folder \in SyncFolders, limit \in 0..MaxLimit :
    \E fault \in Faults(sync_emails(folder, limit, NoFault).n) :
      \E c \in {sync_emails(folder, limit, fault)} :
      /\ WithinBounds(c)
      /\ Commit(c)
      /\ last' = [NoCall EXCEPT !.op = "sync", !.folder = folder, !.limit = limit,
                                !.status = c.status, !.count = c.count, !.new = c.new,
                                !.cmds = c.cmds, !.clean = ~c.hit, !.before = emails, !.mboxes = mbox,
                                !.box = c.sel]
      /\ UNCHANGED <<server, nextMsg, cap, running>>

\* the response reaches the caller; the caller's next request comes after it
Respond ==
  /\ last # NoCall
  /\ last' = NoCall
  /\ UNCHANGED <<emails, nextId, server, mbox, uidnext, nextMsg, cap, running>>

\* POST /api/emails/sync-new
SyncNew ==
  /\ last = NoCall
  /\ \E folder \in SyncFolders :
    \E fault \in Faults(sync_new_emails(folder, NoFault).n) :
      \E c \in {sync_new_emails(folder, fault)} :
      /\ WithinBounds(c)
      /\ Commit(c)
      /\ last' = [NoCall EXCEPT !.op = "sync_new", !.folder = folder,
                                !.status = c.status, !.count = c.count, !.new = c.new,
                                !.cmds = c.cmds, !.clean = ~c.hit, !.before = emails, !.mboxes = mbox,
                                !.cursor = LastUid(emails, folder), !.box = c.sel]
      /\ UNCHANGED <<server, nextMsg, cap, running>>

\* POST /api/emails/<id>/delete
Delete ==
  /\ last = NoCall
  /\ \E e \in emails, permanent \in BOOLEAN, imap_available \in BOOLEAN :
    \E fault \in Faults(delete_email(e.id, permanent, imap_available, NoFault).n) :
      \E c \in {delete_email(e.id, permanent, imap_available, fault)} :
      /\ WithinBounds(c)
      /\ Commit(c)
      /\ last' = [NoCall EXCEPT !.op = "delete", !.id = e.id, !.permanent = permanent,
                                !.configured = imap_available,
                                !.status = c.status, !.cmds = c.cmds, !.clean = ~c.hit,
                                !.before = emails, !.mboxes = mbox]
      /\ UNCHANGED <<server, nextMsg, cap, running>>

\* POST /api/emails/<id>/restore
Restore ==
  /\ last = NoCall
  /\ \E e \in emails, imap_available \in BOOLEAN :
    \E fault \in Faults(restore_email(e.id, imap_available, NoFault).n) :
      \E c \in {restore_email(e.id, imap_available, fault)} :
      /\ WithinBounds(c)
      /\ Commit(c)
      /\ last' = [NoCall EXCEPT !.op = "restore", !.id = e.id,
                                !.configured = imap_available,
                                !.status = c.status, !.cmds = c.cmds, !.clean = ~c.hit,
                                !.before = emails, !.mboxes = mbox]
      /\ UNCHANGED <<server, nextMsg, cap, running>>

\* POST /api/emails/<id>/archive
Archive ==
  /\ last = NoCall
  /\ \E e \in emails, imap_available \in BOOLEAN :
    \E fault \in Faults(archive_email(e.id, imap_available, NoFault).n) :
      \E c \in {archive_email(e.id, imap_available, fault)} :
      /\ WithinBounds(c)
      /\ Commit(c)
      /\ last' = [NoCall EXCEPT !.op = "archive", !.id = e.id,
                                !.configured = imap_available,
                                !.status = c.status, !.cmds = c.cmds, !.clean = ~c.hit,
                                !.before = emails, !.mboxes = mbox]
      /\ UNCHANGED <<server, nextMsg, cap, running>>

\* POST /api/emails/bulk
Bulk ==
  /\ last = NoCall
  /\ \E ids \in BulkSets, action \in {"delete", "archive", "restore"},
       imap_available \in BOOLEAN :
    \E fault \in Faults(bulk_email_action(ids, action, imap_available, NoFault).n) :
      \E c \in {bulk_email_action(ids, action, imap_available, fault)} :
      /\ WithinBounds(c)
      /\ Commit(c)
      /\ last' = [NoCall EXCEPT !.op = "bulk", !.ids = ids, !.action = action,
                                !.configured = imap_available,
                                !.status = c.status, !.cmds = c.cmds, !.clean = ~c.hit,
                                !.before = emails, !.mboxes = mbox, !.local = c.local, !.remote = c.remote,
                                !.ops = c.ops]
      /\ UNCHANGED <<server, nextMsg, cap, running>>

\* POST /api/drafts: a row that has neither UID nor Message-ID, and no
\* message on the server
SaveDraft ==
  /\ last = NoCall
  /\ nextId <= cap.id
  /\ emails' = emails \cup {[id |-> nextId, folder |-> "drafts", imap_uid |-> None,
                             message_id_header |-> None, msg |-> 0, box |-> "",
                             origin |-> "drafts"]}
  /\ nextId' = nextId + 1
  /\ last' = [NoCall EXCEPT !.op = "draft", !.id = nextId, !.status = "success",
                            !.before = emails, !.mboxes = mbox]
  /\ UNCHANGED <<server, mbox, uidnext, nextMsg, cap, running>>

\* POST /api/emails/send: the row of the message sent, with folder sent, no
\* UID and the Message-ID of a message object that was given none
SendEmail ==
  /\ last = NoCall
  /\ nextId <= cap.id
  /\ emails' = emails \cup {[id |-> nextId, folder |-> "sent", imap_uid |-> None,
                             message_id_header |-> None, msg |-> 0, box |-> "",
                             origin |-> "sent"]}
  /\ nextId' = nextId + 1
  /\ last' = [NoCall EXCEPT !.op = "send", !.id = nextId, !.status = "success",
                            !.before = emails, !.mboxes = mbox]
  /\ UNCHANGED <<server, mbox, uidnext, nextMsg, cap, running>>

\* the mailboxes another mail client of the account moves messages between
MoveBoxes == {"INBOX", "Trash"}

\* another mail client of the account moves a message to another mailbox:
\* the message leaves its mailbox and arrives in the other one, under the
\* next UID of that mailbox
MoveElsewhere ==
  /\ last = NoCall
  /\ \E from \in MoveBoxes \cap server.folders, to \in MoveBoxes \cap server.folders :
      /\ from # to
      /\ uidnext[to] <= cap.uid
      /\ \E m \in mbox[from] :
           /\ mbox' = [mbox EXCEPT ![from] = @ \ {m},
                                   ![to] = @ \cup {[m EXCEPT !.uid = uidnext[to]]}]
           /\ uidnext' = [uidnext EXCEPT ![to] = @ + 1]
  /\ UNCHANGED <<emails, nextId, server, nextMsg, cap, last, running>>

\* the workers of the web server
Procs == 1..MaxProcs

\* a worker that handles no sync request
Idle ==
  [pc |-> "idle", kind |-> "", folder |-> "", box |-> "", uids |-> <<>>,
   limit |-> 0, last_uid |-> 0, fetched |-> 0]

GenericServer == [folders |-> {"INBOX", "Sent", "Trash", "Archive"}, gmail |-> FALSE]

Start(S, k) ==
  /\ cap = k
  /\ emails = {}
  /\ nextId = 1
  /\ server \in S
  /\ mbox = [b \in server.folders |-> {}]
  /\ uidnext = [b \in server.folders |-> 1]
  /\ nextMsg = 1
  /\ last = NoCall
  /\ running = [p \in Procs |-> Idle]

\* an empty account on a generic IMAP server
Init ==
  Start({GenericServer}, [msgs |-> MaxMsgs, uid |-> MaxUid, id |-> MaxId, faults |-> FALSE])

\* every request of the model
Next ==
  \/ Deliver
  \/ FullSync
  \/ SyncNew
  \/ Delete
  \/ Restore
  \/ Archive
  \/ Bulk
  \/ SaveDraft
  \/ Respond

Spec == Init /\ [][Next]_vars

---------------------------------------------------------------------------
(* The same requests on a network where any one library call of a request *)
(* can fail, on every server of the model.                                 *)

InitFault ==
  Start(Servers, [msgs |-> FaultMsgs, uid |-> FaultUid, id |-> FaultIds, faults |-> TRUE])

SpecFault == InitFault /\ [][Next]_vars

---------------------------------------------------------------------------
(* The same requests, no library call failing, on the servers that expose  *)
(* nothing but INBOX: no trash, archive or sent mailbox resolves.          *)

InitBare ==
  Start({s \in Servers : s.folders = {"INBOX"}},
        [msgs |-> MaxMsgs, uid |-> MaxUid, id |-> MaxId, faults |-> FALSE])

SpecBare == InitBare /\ [][Next]_vars

---------------------------------------------------------------------------
(* Incremental syncs alone, on an account whose INBOX received more than   *)
(* one incremental batch of messages since its first message was stored,   *)
(* and goes on receiving.                                                   *)

BatchSize == IncrementalBatch + BatchExtra

InitBatch ==
  /\ cap = [msgs |-> BatchSize + BatchExtra, uid |-> BatchSize + BatchExtra,
            id |-> BatchSize + BatchExtra, faults |-> FALSE]
  /\ server = GenericServer
  /\ mbox = [b \in server.folders |->
               IF b = "INBOX"
               THEN {[uid |-> i, msg |-> i, hdr |-> None, del |-> FALSE] : i \in 1..BatchSize}
               ELSE {}]
  /\ uidnext = [b \in server.folders |-> IF b = "INBOX" THEN BatchSize + 1 ELSE 1]
  /\ nextMsg = BatchSize + 1
  /\ emails = {[id |-> 1, folder |-> "inbox", imap_uid |-> 1, message_id_header |-> None,
                msg |-> 1, box |-> "INBOX", origin |-> "inbox"]}
  /\ nextId = 2
  /\ last = NoCall
  /\ running = [p \in Procs |-> Idle]

NextBatch ==
  \/ Deliver
  \/ SyncNew
  \/ Respond

SpecBatch == InitBatch /\ [][NextBatch]_vars

---------------------------------------------------------------------------
(* The two syncs alone, on a generic server, while messages arrive and     *)
(* another mail client moves them between INBOX and Trash, on a network    *)
(* where any one library call of a request can fail.                       *)

InitSync ==
  Start({GenericServer}, [msgs |-> MaxMsgs, uid |-> MaxUid, id |-> MaxId, faults |-> TRUE])

NextSync ==
  \/ Deliver
  \/ MoveElsewhere
  \/ FullSync
  \/ SyncNew
  \/ Respond

SpecSync == InitSync /\ [][NextSync]_vars

---------------------------------------------------------------------------
(* Syncs, deletes and restores on a generic server, no library call        *)
(* failing, while messages arrive and another mail client moves them       *)
(* between INBOX and Trash.                                                *)

NextMove ==
  \/ Deliver
  \/ MoveElsewhere
  \/ FullSync
  \/ SyncNew
  \/ Delete
  \/ Restore
  \/ Respond

SpecMove == Init /\ [][NextMove]_vars

---------------------------------------------------------------------------
(* Syncs and deletes on an account that also sends messages and saves      *)
(* drafts: rows that have no UID.  No library call fails.                  *)

NextLocal ==
  \/ Deliver
  \/ SendEmail
  \/ SaveDraft
  \/ FullSync
  \/ SyncNew
  \/ Delete
  \/ Respond

SpecLocal == Init /\ [][NextLocal]_vars

---------------------------------------------------------------------------
(* Syncs and deletes on a generic server, on a network where any one       *)
(* library call of a request can fail.                                     *)

InitPurge ==
  Start({GenericServer}, [msgs |-> FaultMsgs, uid |-> MaxUid, id |-> MaxId, faults |-> TRUE])

NextPurge ==
  \/ Deliver
  \/ FullSync
  \/ SyncNew
  \/ Delete
  \/ Respond

SpecPurge == InitPurge /\ [][NextPurge]_vars

---------------------------------------------------------------------------
(* Sync requests handled by several workers at a time.  The handlers hold  *)
(* no lock and every query and every commit is a transaction of its own,   *)
(* so the steps of two requests interleave between the queries and the     *)
(* commit of one message.  cap.serial tells whether the callers of the     *)
(* behaviour keep the syncs of one folder of the account apart.            *)

\* worker p may take a sync request for `folder`
MayStart(p, folder) ==
  cap.serial => \A q \in Procs \ {p} : running[q].pc = "idle" \/ running[q].folder # folder

\* what worker p reads its message from and builds its row with
Worker(p) == [mbox |-> mbox, sel |-> running[p].box, nextId |-> nextId]

\* the worker goes on with the UID after the current one
Continue(w) == [w EXCEPT !.pc = "loop", !.uids = Tail(@)]

\* sync_emails up to the answer of its search: the worker holds the batch
BeginFull(p) ==
  /\ running[p].pc = "idle"
  /\ \E folder \in SyncFolders, limit \in 0..MaxLimit :
      /\ MayStart(p, folder)
      /\ \E c \in {SearchAll(SyncSelect(Login(Connect(Context(NoFault))), folder))} :
          /\ ~(folder = "sent" /\ c.found = "")
          /\ running' = [running EXCEPT ![p] =
                [pc |-> "loop", kind |-> "sync", folder |-> folder, box |-> c.sel,
                 uids |-> Reversed(LastSlice(c.data, limit)), limit |-> limit,
                 last_uid |-> 0, fetched |-> 0]]
  /\ UNCHANGED <<emails, nextId, server, mbox, uidnext, nextMsg, cap, last>>

\* sync_new_emails up to the answer of its search: the cursor is read from
\* the table before the connection is opened
BeginNew(p) ==
  /\ running[p].pc = "idle"
  /\ \E folder \in SyncFolders :
      /\ MayStart(p, folder)
      /\ ~CursorIsNone(emails, folder)
      /\ \E last_uid \in {LastUid(emails, folder)} :
          \E c \in {NewSelect(Login(Connect(Context(NoFault))), folder)} :
          /\ ~(folder = "sent" /\ c.found = "")
          /\ \E d \in {IF last_uid > 0 THEN SearchFrom(c, last_uid + 1) ELSE SearchAll(c)} :
              running' = [running EXCEPT ![p] =
                [pc |-> "loop", kind |-> "sync_new", folder |-> folder, box |-> d.sel,
                 uids |-> Reversed(LastSlice(d.data, IncrementalBatch)), limit |-> 0,
                 last_uid |-> last_uid, fetched |-> 0]]
  /\ UNCHANGED <<emails, nextId, server, mbox, uidnext, nextMsg, cap, last>>

\* the head of the loop for the next UID: the comparison with the cursor,
\* the lookup by UID, and the fetch when neither skips the UID
CheckUid(p) ==
  /\ running[p].pc = "loop"
  /\ running[p].uids # <<>>
  /\ \E w \in {running[p]} :
      running' = [running EXCEPT ![p] =
        IF w.kind = "sync_new" /\ Head(w.uids) <= w.last_uid THEN Continue(w)
        ELSE IF SkipByUid(emails, Head(w.uids), w.folder) THEN Continue(w)
        ELSE [w EXCEPT !.pc = "fetched"]]
  /\ UNCHANGED <<emails, nextId, server, mbox, uidnext, nextMsg, cap, last>>

\* the lookup by Message-ID for the message the worker fetched
CheckMsgId(p) ==
  /\ running[p].pc = "fetched"
  /\ \E w \in {running[p]}, m \in {MessageAt(Worker(p), Head(running[p].uids))} :
      running' = [running EXCEPT ![p] =
        IF m.hdr # None /\ SkipByMsgId(emails, m.hdr, w.folder) THEN Continue(w)
        ELSE [w EXCEPT !.pc = "store"]]
  /\ UNCHANGED <<emails, nextId, server, mbox, uidnext, nextMsg, cap, last>>

\* db.session.add(new_email); db.session.commit(); and, in the full sync,
\* fetched_count += 1; if fetched_count >= limit: break
StoreRow(p) ==
  /\ running[p].pc = "store"
  /\ nextId <= cap.id
  /\ \E w \in {running[p]}, m \in {MessageAt(Worker(p), Head(running[p].uids))} :
      /\ emails' = emails \cup {NewEmail(Worker(p), m, w.folder)}
      /\ nextId' = nextId + 1
      /\ running' = [running EXCEPT ![p] =
            IF w.kind = "sync" /\ w.fetched + 1 >= w.limit
            THEN [w EXCEPT !.pc = "loop", !.uids = <<>>, !.fetched = @ + 1]
            ELSE [Continue(w) EXCEPT !.fetched = @ + 1]]
  /\ UNCHANGED <<server, mbox, uidnext, nextMsg, cap, last>>

\* the loop is over: mail.logout() and the response
EndSync(p) ==
  /\ running[p].pc = "loop"
  /\ running[p].uids = <<>>
  /\ running' = [running EXCEPT ![p] = Idle]
  /\ UNCHANGED <<emails, nextId, server, mbox, uidnext, nextMsg, cap, last>>

InitRace ==
  \E serial \in BOOLEAN :
    Start({GenericServer}, [msgs |-> MaxMsgs, uid |-> MaxUid, id |-> MaxId,
                            faults |-> FALSE, serial |-> serial])

NextRace ==
  \/ Deliver
  \/ \E p \in Procs : BeginFull(p)
  \/ \E p \in Procs : BeginNew(p)
  \/ \E p \in Procs : CheckUid(p)
  \/ \E p \in Procs : CheckMsgId(p)
  \/ \E p \in Procs : StoreRow(p)
  \/ \E p \in Procs : EndSync(p)

SpecRace == InitRace /\ [][NextRace]_vars

---------------------------------------------------------------------------
(* Full syncs and bulk calls alone, on a Gmail account, whose server       *)
(* accepts the first candidate of every category; no library call fails.   *)

InitBulk ==
  Start({s \in Servers : s.gmail /\ "[Gmail]/All Mail" \in s.folders},
        [msgs |-> MaxMsgs, uid |-> MaxUid, id |-> MaxId, faults |-> FALSE])

NextBulk ==
  \/ Deliver
  \/ FullSync
  \/ Bulk
  \/ Respond

SpecBulk == InitBulk /\ [][NextBulk]_vars

---------------------------------------------------------------------------
(* The body fields of a row.  A string is the first `len` characters of a  *)
(* text; the empty string is the same whatever the text.                   *)

Str(text, len) == [text |-> IF len = 0 THEN "" ELSE text, len |-> len]

\* Python s[:k]
Whole(s, k) == s

\* Python s[:k]
Slice(s, k) == IF k >= s.len THEN s ELSE Str(s.text, k)

\* Python truthiness of a list of strings `parts and parts[0]`
FirstIsTruthy(parts) == Len(parts) > 0 /\ parts[1].len > 0

\* body_preview = "Could not load preview."; body_full = ""; body_text = "";
\* body_html = ""
BodyDefaults ==
  [body_preview |-> Str("Could not load preview.", 23), body_full |-> Str("", 0),
   body_text |-> Str("", 0), body_html |-> Str("", 0)]

\* if parsed_mail.text_plain and parsed_mail.text_plain[0]: ...
PlainStage(v, raw) ==
  IF FirstIsTruthy(raw.plain)
  THEN [v EXCEPT !.body_text = raw.plain[1],
                 !.body_full = raw.plain[1],
                 !.body_preview = Slice(raw.plain[1], PreviewLen)]
  ELSE v

\* if parsed_mail.text_html and parsed_mail.text_html[0]: ...
\*   if not body_full: ...
HtmlStage(v, raw) ==
  IF FirstIsTruthy(raw.html)
  THEN IF v.body_full.len = 0
       THEN [v EXCEPT !.body_html = raw.html[1],
                      !.body_full = raw.html[1],
                      !.body_preview = Slice(raw.html[1], PreviewLen)]
       ELSE [v EXCEPT !.body_html = raw.html[1]]
  ELSE v

\* if not body_full: body_full = "Could not load email content."; body_preview = body_full
FailStage(v) ==
  IF v.body_full.len = 0
  THEN [v EXCEPT !.body_full = Str("Could not load email content.", 29),
                 !.body_preview = Str("Could not load email content.", 29)]
  ELSE v

\* the body fields sync_emails gives the row of a parsed message
BodyFull(raw) == FailStage(HtmlStage(PlainStage(BodyDefaults, raw), raw))

\* the body fields sync_new_emails gives the row of a parsed message
BodyNew(raw) == FailStage(HtmlStage(PlainStage(BodyDefaults, raw), raw))

\* the lengths of the parts of the model: empty, one character, a whole
\* preview, and longer than a preview
PartLens == {0, 1, PreviewLen} \cup (PreviewLen + 1)..(PreviewLen + MaxOver)

\* up to MaxParts parts whose text is `text`
PartLists(text) ==
  UNION {[1..n -> {Str(text, k) : k \in PartLens}] : n \in 0..MaxParts}

\* the parsed messages of the model: mailparser's text_plain and text_html
RawMessages == [plain : PartLists("plain text"), html : PartLists("<html>")]

\* a fetched and parsed message waits for its row
InitBody ==
  /\ cap = [msgs |-> 0, uid |-> 0, id |-> 0, faults |-> FALSE]
  /\ emails = {}
  /\ nextId = 1
  /\ server = GenericServer
  /\ mbox = [b \in server.folders |-> {}]
  /\ uidnext = [b \in server.folders |-> 1]
  /\ nextMsg = 1
  /\ running = [p \in Procs |-> Idle]
  /\ last \in {[op |-> "parsed", raw |-> r] : r \in RawMessages}

\* the body extraction of sync_emails
ExtractFull ==
  /\ last.op = "parsed"
  /\ last' = [op |-> "sync", raw |-> last.raw, fields |-> BodyFull(last.raw)]
  /\ UNCHANGED <<emails, nextId, server, mbox, uidnext, nextMsg, cap, running>>

\* the body extraction of sync_new_emails
ExtractNew ==
  /\ last.op = "parsed"
  /\ last' = [op |-> "sync_new", raw |-> last.raw, fields |-> BodyNew(last.raw)]
  /\ UNCHANGED <<emails, nextId, server, mbox, uidnext, nextMsg, cap, running>>

NextBody ==
  \/ ExtractFull
  \/ ExtractNew

SpecBody == InitBody /\ [][NextBody]_vars

---------------------------------------------------------------------------
(* Properties.  A state with last # NoCall is the state right after a     *)
(* request: last holds the request, its response and its command log,      *)
(* last.before the rows the request found.                                  *)

\* the row a request named, as the request found it
RowBefore(id) == CHOOSE e \in last.before : e.id = id

\* row e stands for server message m: it was read from m or from a copy of
\* m, or it carries m's Message-ID
Represents(e, m) ==
  e.msg = m.msg \/ (m.hdr # None /\ e.message_id_header = m.hdr)

\* the k most recent of a list of UIDs in ascending order
MostRecent(seq, k) == SubSeq(seq, Len(seq) - Min(k, Len(seq)) + 1, Len(seq))

\* the UIDs a request fetched, in the order of its fetches
FetchedUids(cmds) ==
  LET f == SelectSeq(cmds, LAMBDA x : x.cmd = "fetch") IN [i \in 1..Len(f) |-> f[i].uid]

\* a remote step of the request failed: the connection, the login, or a
\* copy, flag or expunge command raised
RemoteFailed ==
  \E i \in 1..Len(last.cmds) :
    /\ last.cmds[i].r = "EXC"
    /\ last.cmds[i].cmd \in {"connect", "login", "copy", "store", "expunge"}

\* the local change of operation `action` on row id is in the table
Applied(id, action, permanent) ==
  LET e == RowBefore(id) IN
  CASE action = "delete" ->
         IF permanent \/ e.folder = "trash" THEN ~\E x \in emails : x.id = id
         ELSE [e EXCEPT !.folder = "trash"] \in emails
    [] action = "archive" -> [e EXCEPT !.folder = "archive"] \in emails
    [] action = "restore" ->
         IF e.folder = "trash" THEN [e EXCEPT !.folder = "inbox"] \in emails
         ELSE e \in emails
    [] OTHER -> FALSE

\* the request was a delete with permanent = false of a row that has a UID
\* and is not in trash, on an account with IMAP credentials
MoveToTrashRequest ==
  /\ last.op = "delete"
  /\ ~last.permanent
  /\ last.configured
  /\ RowBefore(last.id).folder # "trash"
  /\ RowBefore(last.id).imap_uid # None

\* C1: full sync is idempotent: the same full sync, run again right after
\* one that completed, against the unchanged mailbox, stores no new record.
FullSyncIdempotent ==
  (last.op = "sync" /\ last.status = "success") =>
    sync_emails(last.folder, last.limit, NoFault).count = 0

\* C2: for every non-empty Message-ID header value at most one row of the
\* account carries it, after any sequence of requests.
OneRowPerMessageId ==
  \A a, b \in emails :
    (a.message_id_header # None /\ a.message_id_header = b.message_id_header) => a = b

\* C2, its case: a sync that completed met a message whose UID no row has
\* and whose Message-ID a row already carries, and stored nothing for it.
SkippedByMessageId ==
  /\ last.op \in {"sync", "sync_new"}
  /\ last.status = "success"
  /\ last.count = 0
  /\ \E i \in 1..Len(last.cmds) :
       /\ last.cmds[i].cmd = "fetch"
       /\ last.cmds[i].r = "OK"
       /\ ~ExistsByUid(emails, last.cmds[i].uid)
       /\ \E m \in mbox[last.box] :
            /\ m.uid = last.cmds[i].uid
            /\ m.hdr # None
            /\ ExistsByMsgId(emails, m.hdr)

\* C3: a row that was moved to trash or archive stays as it is through a
\* later sync of inbox, and the sync stores no inbox row for its message.
NoResurrection ==
  (last.op \in {"sync", "sync_new"} /\ last.folder = "inbox") =>
    \A r \in last.before :
      (r.origin = "inbox" /\ r.folder \in {"trash", "archive"}) =>
        /\ r \in emails
        /\ ~\E n \in emails \ last.before : n.folder = "inbox" /\ n.msg = r.msg

\* C4: after a full sync that met no failure and whose limit is at least
\* the number of messages of the mailbox, every message of the mailbox is
\* represented by exactly one row.
EveryMessageOnce ==
  (/\ last.op = "sync"
   /\ last.status = "success"
   /\ last.clean
   /\ last.limit >= Cardinality(mbox[last.box])) =>
    \A m \in mbox[last.box] : Cardinality({e \in emails : Represents(e, m)}) = 1

\* C5: an incremental sync whose cursor is C stores and returns only
\* messages whose UID is greater than C.
IncrementalAboveCursor ==
  last.op = "sync_new" =>
    /\ \A i \in 1..Len(last.new) : last.new[i] > last.cursor
    /\ \A e \in emails \ last.before : e.imap_uid > last.cursor

\* C5, its case: the cursor exists, the highest UID of the mailbox is not
\* above it, so the answer to the range search held that UID, no row has it
\* and no row has the message's Message-ID; the sync completed.
AnswerBelowCursor ==
  /\ last.op = "sync_new"
  /\ last.status = "success"
  /\ last.cursor > 0
  /\ \E m \in mbox[last.box] :
       /\ m.uid = SetMax(Uids(mbox, last.box))
       /\ m.uid <= last.cursor
       /\ ~ExistsByUid(last.before, m.uid)
       /\ ~(m.hdr # None /\ ExistsByMsgId(last.before, m.hdr))

\* C6: after an incremental sync that had a cursor and completed, no
\* message of the mailbox with a UID above that cursor is without a row.
IncrementalTakesAll ==
  (/\ last.op = "sync_new"
   /\ last.status = "success"
   /\ last.clean
   /\ last.cursor > 0) =>
    \A m \in mbox[last.box] :
      m.uid > last.cursor => \E e \in emails : Represents(e, m)

\* C7: a full sync with limit L on an empty table fetches exactly the L
\* most recent UIDs of the mailbox, the highest first, and stores each of
\* them (but a repeated Message-ID) with the folder the request named.
FullSyncTakesMostRecent ==
  (last.op = "sync" /\ last.status = "success" /\ last.before = {}) =>
    LET want == Reversed(MostRecent(SortedSeq(Uids(mbox, last.box)), last.limit)) IN
    /\ FetchedUids(last.cmds) = want
    /\ \A e \in emails :
         e.folder = last.folder /\ \E i \in 1..Len(want) : want[i] = e.imap_uid
    /\ \A i \in 1..Len(want) :
         \E e \in emails, m \in mbox[last.box] : m.uid = want[i] /\ Represents(e, m)

\* C8: delete, archive, restore and bulk apply their local change whatever
\* happens on the remote side, and answer 'warning' when a remote step failed.
LocalChangeSurvives ==
  /\ last.op \in {"delete", "archive", "restore"} =>
       /\ Applied(last.id, last.op, last.permanent)
       /\ RemoteFailed => last.status = "warning"
  /\ last.op = "bulk" =>
       /\ \A id \in last.ids : Applied(id, last.action, FALSE)
       /\ RemoteFailed => last.status = "warning"

\* C9: a delete with permanent = false of a row that is not in trash, when
\* the remote steps succeed, leaves the message in the resolved trash mailbox
\* and no longer in the mailbox it was flagged in, and the row in trash.
DeleteMovesToTrash ==
  (MoveToTrashRequest /\ last.status = "success") =>
    LET e == RowBefore(last.id) IN
    /\ [e EXCEPT !.folder = "trash"] \in emails
    /\ \E i \in 1..Len(last.cmds) :
         /\ last.cmds[i].cmd = "copy"
         /\ last.cmds[i].r = "OK"
         /\ \E m \in mbox[last.cmds[i].box] : m.msg = e.msg
    /\ \E i \in 1..Len(last.cmds) :
         /\ last.cmds[i].cmd = "store"
         /\ last.cmds[i].r = "OK"
         /\ ~\E m \in mbox[last.cmds[i].sel] : m.msg = e.msg

\* C10: a delete with permanent = false of a row that is not in trash, on a
\* server where no trash mailbox resolves, flags the message and expunges it
\* from the source mailbox without a copy, and does not answer 'success'.
DeleteWithoutTrash ==
  (/\ MoveToTrashRequest
   /\ last.clean
   /\ \A i \in 1..Len(TrashFolders) : TrashFolders[i] \notin server.folders) =>
    /\ \A i \in 1..Len(last.cmds) : last.cmds[i].cmd # "copy"
    /\ \E i, j \in 1..Len(last.cmds) :
         /\ i < j
         /\ last.cmds[i].cmd = "store" /\ last.cmds[i].r = "OK"
         /\ last.cmds[j].cmd = "expunge" /\ last.cmds[j].r = "OK"
    /\ last.status # "success"

\* the mailboxes that held the message of row e when the request arrived
HeldIn(e) == {b \in DOMAIN last.mboxes : \E m \in last.mboxes[b] : m.msg = e.msg}

\* the server mailboxes a local folder stands for
MailboxesOf(folder) ==
  CASE folder = "inbox" -> {"INBOX"}
    [] folder = "trash" -> {TrashFolders[i] : i \in 1..Len(TrashFolders)}
    [] folder = "archive" -> {ArchiveFolders[i] : i \in 1..Len(ArchiveFolders)}
    [] folder = "sent" -> {SyncSentFolders[i] : i \in 1..Len(SyncSentFolders)}
    [] OTHER -> {}

\* when the request arrived the message of row e was on the server, in the
\* mailbox the row's folder stands for and nowhere else
InPlaceBefore(e) == HeldIn(e) # {} /\ HeldIn(e) \subseteq MailboxesOf(e.folder)

\* the request issued no copy command
NoCopy == \A i \in 1..Len(last.cmds) : last.cmds[i].cmd # "copy"

\* the request flagged the message of row e in mailbox b and expunged it
\* there: a STORE of the UID the message had in b, then an EXPUNGE, both
\* answered OK with b selected, and b no longer holds the message
FlaggedAndExpunged(e, b) ==
  /\ \E i, j \in 1..Len(last.cmds) :
       /\ i < j
       /\ last.cmds[i].cmd = "store" /\ last.cmds[i].r = "OK" /\ last.cmds[i].sel = b
       /\ \E m \in last.mboxes[b] : m.msg = e.msg /\ m.uid = last.cmds[i].uid
       /\ last.cmds[j].cmd = "expunge" /\ last.cmds[j].r = "OK" /\ last.cmds[j].sel = b
  /\ ~\E m \in mbox[b] : m.msg = e.msg

\* the remote and the local side of a delete for good of row e
RemovedInPlace(e) ==
  /\ NoCopy
  /\ \E b \in HeldIn(e) : FlaggedAndExpunged(e, b)
  /\ ~\E x \in emails : x.id = e.id

\* C11: a delete that is permanent, or of a row already in trash, flags and
\* expunges the message where it is, copies nothing, and removes the row;
\* so does a bulk delete for each of its rows that is already in trash.
DeleteForGoodInPlace ==
  /\ (/\ last.op = "delete"
      /\ last.configured
      /\ last.permanent \/ RowBefore(last.id).folder = "trash"
      /\ RowBefore(last.id).imap_uid # None
      /\ InPlaceBefore(RowBefore(last.id))) => RemovedInPlace(RowBefore(last.id))
  /\ (last.op = "bulk" /\ last.action = "delete" /\ last.configured) =>
       \A id \in last.ids :
         (/\ RowBefore(id).folder = "trash"
          /\ RowBefore(id).imap_uid # None
          /\ InPlaceBefore(RowBefore(id))) => RemovedInPlace(RowBefore(id))

\* the request was a delete with permanent = false of a row in trash
TrashedDeleteRequest ==
  /\ last.op = "delete"
  /\ ~last.permanent
  /\ RowBefore(last.id).folder = "trash"

\* the request flagged UID uid and expunged, with the same mailbox selected
FlagThenExpunge(uid) ==
  \E i, j \in 1..Len(last.cmds) :
    /\ i < j
    /\ last.cmds[i].cmd = "store" /\ last.cmds[i].uid = uid
    /\ last.cmds[j].cmd = "expunge"
    /\ last.cmds[i].sel = last.cmds[j].sel

\* the request reached the server, for a row with a UID, and no library
\* call of it failed
CleanRemoteRequest(e) == last.configured /\ last.clean /\ e.imap_uid # None

TrashedWithUid(ids) ==
  {id \in ids : RowBefore(id).folder = "trash" /\ RowBefore(id).imap_uid # None}

\* C13: a restore of a row that is not in trash is rejected with an error,
\* changes no row and issues no library call; a bulk restore leaves such a
\* row as it is and queues remote operations for its trashed rows only.
RestoreRejected ==
  /\ (last.op = "restore" /\ RowBefore(last.id).folder # "trash") =>
       /\ last.status = "error"
       /\ emails = last.before
       /\ mbox = last.mboxes
       /\ last.cmds = <<>>
  /\ (last.op = "bulk" /\ last.action = "restore") =>
       /\ \A id \in last.ids :
            RowBefore(id).folder # "trash" => RowBefore(id) \in emails
       /\ Len(last.ops) <= Cardinality(TrashedWithUid(last.ids))
       /\ TrashedWithUid(last.ids) = {} => last.cmds = <<>> /\ mbox = last.mboxes

\* C13, its case: a restore of a row that is not in trash was answered
RestoreOfLiveRow ==
  /\ last.op = "restore"
  /\ last.configured
  /\ RowBefore(last.id).folder # "trash"
  /\ RowBefore(last.id).imap_uid # None
  /\ last.status = "error"

\* C14: a restore of a row in trash whose message is in the trash mailbox,
\* when it answers 'success', has copied the message into INBOX and flagged
\* and expunged it from the trash mailbox, and the row's folder is inbox:
\* the message a delete moved to trash is back in INBOX and out of trash.
RestoreMovesBack ==
  (/\ last.op = "restore"
   /\ last.status = "success"
   /\ last.configured
   /\ RowBefore(last.id).folder = "trash"
   /\ RowBefore(last.id).imap_uid # None
   /\ InPlaceBefore(RowBefore(last.id))) =>
    /\ [RowBefore(last.id) EXCEPT !.folder = "inbox"] \in emails
    /\ \E m \in mbox[MutFolderMapping("inbox")] : m.msg = RowBefore(last.id).msg
    /\ \A b \in HeldIn(RowBefore(last.id)) : FlaggedAndExpunged(RowBefore(last.id), b)

\* the request was an archive of a row with a UID that reached a server on
\* which no archive mailbox resolves, and no library call of it failed
ArchiveWithoutFolderRequest ==
  /\ last.op = "archive"
  /\ CleanRemoteRequest(RowBefore(last.id))
  /\ \A i \in 1..Len(ArchiveFolders) : ArchiveFolders[i] \notin server.folders

\* C15: when no archive mailbox resolves, an archive on a Gmail host flags
\* the UID in INBOX and expunges, without a copy, and answers 'success'; on
\* any other host it flags nothing and answers 'warning'; the row's folder
\* is archive in both cases.
ArchiveWithoutFolder ==
  ArchiveWithoutFolderRequest =>
    /\ [RowBefore(last.id) EXCEPT !.folder = "archive"] \in emails
    /\ NoCopy
    /\ IsGmailHost =>
         /\ last.status = "success"
         /\ \E i, j \in 1..Len(last.cmds) :
              /\ i < j
              /\ last.cmds[i].cmd = "store" /\ last.cmds[i].r = "OK"
              /\ last.cmds[i].sel = "INBOX"
              /\ last.cmds[i].uid = RowBefore(last.id).imap_uid
              /\ last.cmds[j].cmd = "expunge" /\ last.cmds[j].r = "OK"
              /\ last.cmds[j].sel = "INBOX"
         /\ (RowBefore(last.id).folder = "inbox" /\ InPlaceBefore(RowBefore(last.id))) =>
              FlaggedAndExpunged(RowBefore(last.id), "INBOX")
    /\ ~IsGmailHost =>
         /\ last.status = "warning"
         /\ \A i \in 1..Len(last.cmds) : last.cmds[i].cmd \notin {"store", "expunge"}
         /\ mbox = last.mboxes

\* a remote step of the request did not succeed: the connection, the login,
\* or a copy, flag or expunge command raised or was answered NO
RemoteStepFailed ==
  \E i \in 1..Len(last.cmds) :
    /\ last.cmds[i].cmd \in {"connect", "login", "copy", "store", "expunge"}
    /\ last.cmds[i].r # "OK"

\* C16: a single delete, archive or restore on an account with IMAP
\* credentials answers 'success' only when no remote step of it failed and,
\* for a row with a UID, the flag and the expunge it calls for were made;
\* when the local change is in the table and a remote step failed it
\* answers 'warning'.
SuccessOnlyIfRemoteDone ==
  (/\ last.op \in {"delete", "archive", "restore"}
   /\ last.configured
   /\ last.op = "restore" => RowBefore(last.id).folder = "trash") =>
    /\ last.status = "success" =>
         /\ ~RemoteStepFailed
         /\ RowBefore(last.id).imap_uid # None =>
              FlagThenExpunge(RowBefore(last.id).imap_uid)
    /\ (Applied(last.id, last.op, last.permanent) /\ RemoteStepFailed) =>
         last.status = "warning"

\* the rows of a bulk request whose change has to reach the server: rows
\* with a UID that the action applies to
NeedsRemote(ids, action) ==
  {id \in ids : /\ RowBefore(id).imap_uid # None
                /\ action = "restore" => RowBefore(id).folder = "trash"}

\* C17: a bulk call counts its local and its remote successes apart, and
\* answers 'success' only when every row that had to reach the server was
\* propagated and no remote step of the batch failed.
BulkSuccessMeansAllRemote ==
  (last.op = "bulk" /\ last.configured) =>
    /\ last.local = Cardinality({id \in last.ids :
                       last.action = "restore" => RowBefore(id).folder = "trash"})
    /\ last.remote <= Len(last.ops)
    /\ last.status = "success" =>
         /\ Len(last.ops) = Cardinality(NeedsRemote(last.ids, last.action))
         /\ last.remote = Len(last.ops)
         /\ ~RemoteStepFailed

\* the copy, flag and expunge commands of a command log, each with its
\* UID, its target, the mailbox selected when it was issued, and its answer
RemoteSteps(cmds) == SelectSeq(cmds, LAMBDA x : x.cmd \in {"copy", "store", "expunge"})

\* the single call for an action, with permanent = false, all calls succeeding
SingleCall(id, action) ==
  CASE action = "delete" -> delete_email(id, FALSE, TRUE, NoFault)
    [] action = "archive" -> archive_email(id, TRUE, NoFault)
    [] OTHER -> restore_email(id, TRUE, NoFault)

\* a bulk call on row id alone and the single call leave the same table and
\* the same mailboxes, and issue the same copy, flag and expunge commands
SameAsSingle(id, action) ==
  /\ bulk_email_action({id}, action, TRUE, NoFault).emails = SingleCall(id, action).emails
  /\ bulk_email_action({id}, action, TRUE, NoFault).mbox = SingleCall(id, action).mbox
  /\ RemoteSteps(bulk_email_action({id}, action, TRUE, NoFault).cmds)
       = RemoteSteps(SingleCall(id, action).cmds)

\* C18: for every row and every action, the bulk call on that row does on
\* the server and in the table what the single call with permanent = false
\* does.
BulkAsSingle ==
  \A e \in emails, action \in {"delete", "archive", "restore"} : SameAsSingle(e.id, action)

\* the rows of a bulk request that have no UID
WithoutUid(ids) == {id \in ids : RowBefore(id).imap_uid = None}

\* C19: for a row without a UID, delete, archive, restore and bulk issue no
\* copy, flag or expunge, leave the mailboxes as they are, make the local
\* change, and answer 'success' or 'warning', not 'error'.
LocalOnlyWithoutUid ==
  /\ (/\ last.op \in {"delete", "archive", "restore"}
      /\ RowBefore(last.id).imap_uid = None
      /\ last.op = "restore" => RowBefore(last.id).folder = "trash") =>
       /\ RemoteSteps(last.cmds) = <<>>
       /\ mbox = last.mboxes
       /\ Applied(last.id, last.op, last.permanent)
       /\ last.status \in {"success", "warning"}
  /\ last.op = "bulk" =>
       /\ \A id \in WithoutUid(last.ids) : Applied(id, last.action, FALSE)
       /\ Len(last.ops) <= Cardinality(last.ids \ WithoutUid(last.ids))
       /\ WithoutUid(last.ids) = last.ids =>
            /\ last.cmds = <<>>
            /\ mbox = last.mboxes
            /\ last.status = "success"

\* the reference policy: skip when a row of the account has the UID, in any
\* folder; else skip when the Message-ID is present and a row carries it
PolicySkips(db, uid, h) ==
  \/ \E e \in db : e.imap_uid = uid
  \/ h # None /\ \E e \in db : e.message_id_header = h

\* the pair (folder of the row, folder synced) is none of inbox against
\* trash or archive
OtherPairing(rowFolder, folder) ==
  /\ rowFolder # folder
  /\ ~(rowFolder \in {"trash", "archive"} /\ folder = "inbox")
  /\ ~(rowFolder = "inbox" /\ folder \in {"trash", "archive"})

\* C20: for every table the account can have and every UID, Message-ID and
\* folder, both sync handlers skip a message exactly when the reference
\* policy does; a sync stores a row only for a message the policy accepts,
\* and every message it fetched matches a row afterwards.
DedupAsPolicy ==
  /\ \A uid \in 1..cap.uid, h \in 0..MaxHdr, folder \in SyncFolders :
       CodeSkips(emails, uid, h, folder) = PolicySkips(emails, uid, h)
  /\ last.op \in {"sync", "sync_new"} =>
       /\ \A e \in emails \ last.before :
            ~PolicySkips(last.before, e.imap_uid, e.message_id_header)
       /\ \A i \in 1..Len(last.cmds) :
            (last.cmds[i].cmd = "fetch" /\ last.cmds[i].r = "OK") =>
              \A m \in last.mboxes[last.cmds[i].sel] :
                m.uid = last.cmds[i].uid => PolicySkips(emails, m.uid, m.hdr)

\* C20, its case: a sync that completed met a message whose UID a row in
\* another folder has, the two folders being none of the inbox pairings,
\* fetched nothing for it and stored nothing.
SkippedInOtherPairing ==
  /\ last.op \in {"sync", "sync_new"}
  /\ last.status = "success"
  /\ emails = last.before
  /\ \E m \in mbox[last.box], e \in last.before :
       /\ e.imap_uid = m.uid
       /\ OtherPairing(e.folder, last.folder)
       /\ \A i \in 1..Len(last.cmds) :
            ~(last.cmds[i].cmd = "fetch" /\ last.cmds[i].uid = m.uid)

\* the sync request met message m of the mailbox it selected: a full sync
\* whose limit covers the mailbox, an incremental sync whose cursor is below
\* the UID of m
Discovered(m) ==
  IF last.op = "sync" THEN last.limit >= Cardinality(mbox[last.box])
  ELSE m.uid > last.cursor

\* C21: a sync that completes without a failure and meets, in the mailbox
\* of the folder it was asked for, a message whose row was read from the
\* mailbox of another folder and still has that folder, sets the folder of
\* that row to the folder it was asked for and stores no second row for the
\* message.
DiscoveredElsewhereUpdatesFolder ==
  (/\ last.op \in {"sync", "sync_new"}
   /\ last.status = "success"
   /\ last.clean
   /\ last.box \in MailboxesOf(last.folder)) =>
    \A r \in last.before, m \in mbox[last.box] :
      (/\ r.msg = m.msg
       /\ r.folder # last.folder
       /\ r.box # last.box
       /\ r.box \in MailboxesOf(r.folder)
       /\ Discovered(m)) =>
        /\ [r EXCEPT !.folder = last.folder] \in emails
        /\ ~\E n \in emails \ last.before : n.msg = m.msg

\* the library calls of the request with command name cmd
CallsOf(cmd) == SelectSeq(last.cmds, LAMBDA x : x.cmd = cmd)

\* the request logged in, and the last library call it made is the logout
ClosedAtReturn == Len(last.cmds) > 0 /\ last.cmds[Len(last.cmds)].cmd = "logout"

\* C22: every sync and every mutation request opens at most one connection
\* and, once it has logged in, makes the logout its last library call, also
\* when a library call after the login fails.
OneConnectionClosed ==
  last.op \in {"sync", "sync_new", "delete", "archive", "restore", "bulk"} =>
    /\ Len(CallsOf("connect")) <= 1
    /\ Len(CallsOf("logout")) <= 1
    /\ (\E i \in 1..Len(last.cmds) : last.cmds[i].cmd = "login" /\ last.cmds[i].r = "OK")
         => ClosedAtReturn

\* the UIDs of the batch of a full sync: the last `limit` UIDs of the
\* mailbox the request selected, as the mailbox was when the request arrived
BatchOf(box, limit) == MostRecent(SortedSeq(Uids(last.mboxes, box)), limit)

\* the fetch of the request that failed: it raised or was answered NO
FailedFetch(i) ==
  /\ i \in 1..Len(last.cmds)
  /\ last.cmds[i].cmd = "fetch"
  /\ last.cmds[i].r # "OK"

\* C23: in a full sync in which the fetch of one message fails, every other
\* message of the batch is still processed (it has a row, or a row carries
\* its Message-ID, when the call returns), and the rows stored before the
\* failure stay in the table.
BatchSurvivesFailure ==
  (last.op = "sync" /\ last.limit >= 1) =>
    \A i \in 1..Len(last.cmds) :
      FailedFetch(i) =>
        /\ last.before \subseteq emails
        /\ \A k \in 1..Len(last.new) : ExistsByUid(emails, last.new[k])
        /\ \A k \in 1..Len(BatchOf(last.cmds[i].sel, last.limit)) :
             BatchOf(last.cmds[i].sel, last.limit)[k] # last.cmds[i].uid =>
               \E m \in last.mboxes[last.cmds[i].sel] :
                 /\ m.uid = BatchOf(last.cmds[i].sel, last.limit)[k]
                 /\ PolicySkips(emails, m.uid, m.hdr)

\* the connection could not be established or the login was refused
ConnectionFailed ==
  \E i \in 1..Len(last.cmds) :
    last.cmds[i].cmd \in {"connect", "login"} /\ last.cmds[i].r # "OK"

\* C24: a full or incremental sync answers 'error' only when the connection
\* or the login failed; whatever else fails (the folder listing, the select,
\* the search, the fetch of a message, the logout), the call completes.
OnlyConnectionIsFatal ==
  (last.op \in {"sync", "sync_new"} /\ last.status = "error") => ConnectionFailed

\* two rows of the same folder stand for the same message of the server
StoredTwice ==
  \E a, b \in emails : a # b /\ a.msg = b.msg /\ a.box = b.box /\ a.folder = b.folder

Carry(s, x) ==
  IF x.r # "OK" \/ x.sel = "" THEN s
  ELSE CASE x.cmd = "copy" ->
              [s EXCEPT !.mbox[x.box] =
                          @ \cup Copies([mbox |-> s.mbox, uidnext |-> s.uidnext, sel |-> x.sel],
                                        x.uid, x.box),
                        !.uidnext[x.box] =
                          IF Copies([mbox |-> s.mbox, uidnext |-> s.uidnext, sel |-> x.sel],
                                    x.uid, x.box) = {} THEN @ ELSE @ + 1]
         [] x.cmd = "store" ->
              [s EXCEPT !.mbox[x.sel] =
                          {IF m.uid = x.uid THEN [m EXCEPT !.del = TRUE] ELSE m : m \in @}]
         [] x.cmd = "expunge" -> [s EXCEPT !.mbox[x.sel] = {m \in @ : ~m.del}]
         [] OTHER -> s

RECURSIVE Replay(_, _)
\* the mailboxes after the server has carried out the commands of `steps`
Replay(s, steps) ==
  IF steps = <<>> THEN s ELSE Replay(Carry(s, Head(steps)), Tail(steps))

RECURSIVE Merges(_, _)
\* every order in which the server can receive the commands of two
\* connections, each connection sending its own in sequence
Merges(a, b) ==
  IF a = <<>> THEN {b}
  ELSE IF b = <<>> THEN {a}
  ELSE {<<Head(a)>> \o m : m \in Merges(Tail(a), b)}
         \cup {<<Head(b)>> \o m : m \in Merges(a, Tail(b))}

\* which messages each mailbox holds, with their flags
Contents(s) == [b \in DOMAIN s.mbox |-> {[msg |-> m.msg, del |-> m.del] : m \in s.mbox[b]}]

\* the single mutation calls: delete, delete with permanent = true, archive,
\* restore
MutationOps == {"delete", "purge", "archive", "restore"}

\* the call `op` on row id, all library calls succeeding
CallOf(id, op) ==
  CASE op = "delete" -> delete_email(id, FALSE, TRUE, NoFault)
    [] op = "purge" -> delete_email(id, TRUE, TRUE, NoFault)
    [] op = "archive" -> archive_email(id, TRUE, NoFault)
    [] OTHER -> restore_email(id, TRUE, NoFault)

\* the commands of the two calls reach the server in any order: the
\* mailboxes end up holding the same messages as after the first call
\* followed by the second, and as after the second followed by the first
SameInAnyOrder(a, b) ==
  \A m \in Merges(a, b) :
    /\ Contents(Replay([mbox |-> mbox, uidnext |-> uidnext], m))
         = Contents(Replay([mbox |-> mbox, uidnext |-> uidnext], a \o b))
    /\ Contents(Replay([mbox |-> mbox, uidnext |-> uidnext], m))
         = Contents(Replay([mbox |-> mbox, uidnext |-> uidnext], b \o a))

\* the model of the server is the same in both places: the commands of a
\* call, carried out one by one, give the mailboxes the call leaves behind
CarryAsHandler ==
  \A e \in emails, op \in MutationOps :
    Replay([mbox |-> mbox, uidnext |-> uidnext], RemoteSteps(CallOf(e.id, op).cmds))
      = [mbox |-> CallOf(e.id, op).mbox, uidnext |-> CallOf(e.id, op).uidnext]

\* the message of row e is on the server, in the mailbox the row's folder
\* stands for and nowhere else
InPlaceNow(e) ==
  /\ \E b \in DOMAIN mbox : \E m \in mbox[b] : m.msg = e.msg
  /\ \A b \in DOMAIN mbox : (\E m \in mbox[b] : m.msg = e.msg) => b \in MailboxesOf(e.folder)

\* C26: for two rows that stand for different messages, each message being
\* in the mailbox of its row's folder, and any two single mutation calls on
\* them, every interleaving of the commands of the two calls leaves the
\* mailboxes holding what they hold after the two calls one after the
\* other, in either order.  (Each call reads and writes no row but the one
\* it names, so the rows are the same in every order.)
MutationsIndependent ==
  \A a, b \in emails :
    (/\ a.id # b.id /\ a.msg # b.msg
     /\ a.imap_uid # None /\ b.imap_uid # None
     /\ InPlaceNow(a) /\ InPlaceNow(b)) =>
      \A opa, opb \in MutationOps :
        SameInAnyOrder(RemoteSteps(CallOf(a.id, opa).cmds), RemoteSteps(CallOf(b.id, opb).cmds))

\* the first name of a candidate list that the server accepts in a select,
\* "" when it accepts none
FirstAccepted(names) ==
  IF \A i \in 1..Len(names) : names[i] \notin server.folders THEN ""
  ELSE names[CHOOSE i \in 1..Len(names) :
               /\ names[i] \in server.folders
               /\ \A j \in 1..(i - 1) : names[j] \notin server.folders]

\* the candidate list the request resolves its target mailbox from
CandidatesOf(op, action) ==
  CASE op = "delete" -> TrashFolders
    [] op = "archive" -> ArchiveFolders
    [] op = "bulk" /\ action = "delete" -> BulkTrashFolders
    [] op = "bulk" /\ action = "archive" -> BulkArchiveFolders
    [] OTHER -> <<>>

\* C27: when no library call fails, the mailbox a request resolves for a
\* category is the first candidate of the category's list that the server
\* accepts: a sync of sent reads that mailbox, a restore flags in the first
\* accepted trash mailbox, and a delete, an archive and a bulk call copy to
\* no mailbox but the first accepted candidate of their list.
ResolvesFirstAccepted ==
  last.clean =>
    /\ (last.op \in {"sync", "sync_new"} /\ last.folder = "sent" /\ last.status = "success")
         => last.box = FirstAccepted(SyncSentFolders)
    /\ (last.op = "restore" /\ FirstAccepted(TrashFolders) # "") =>
         \A i \in 1..Len(last.cmds) :
           last.cmds[i].cmd = "store" => last.cmds[i].sel = FirstAccepted(TrashFolders)
    /\ (last.op \in {"delete", "archive"} \/ (last.op = "bulk" /\ last.action # "restore")) =>
         \A i \in 1..Len(last.cmds) :
           last.cmds[i].cmd = "copy" =>
             last.cmds[i].box = FirstAccepted(CandidatesOf(last.op, last.action))

\* the names a sync probes for a folder: the sent candidates, or the one
\* name folder_mapping holds for the folder (none for a folder it lacks)
SyncCandidates(folder) ==
  CASE folder = "sent" -> {SyncSentFolders[i] : i \in 1..Len(SyncSentFolders)}
    [] folder \in {"inbox", "drafts", "trash", "spam"} -> {SyncFolderMapping(folder)}
    [] OTHER -> {}

\* C28: a sync of a folder none of whose candidate names the server accepts,
\* in which no library call fails, reads INBOX instead, tells the caller so
\* by answering 'warning', and is not aborted.
FallbackIsSignalled ==
  (/\ last.op \in {"sync", "sync_new"}
   /\ last.clean
   /\ SyncCandidates(last.folder) \cap server.folders = {}) =>
    /\ last.box = "INBOX"
    /\ last.status = "warning"

\* the names of a candidate list
NamesOf(names) == {names[i] : i \in 1..Len(names)}

\* C29: a bulk call in which no library call fails selects each candidate
\* name of the category it resolves at most once on its connection, however
\* many rows it handles.
ProbedOncePerSession ==
  (last.op = "bulk" /\ last.clean) =>
    \A i, j \in 1..Len(last.cmds) :
      (/\ last.cmds[i].cmd = "select"
       /\ last.cmds[j].cmd = "select"
       /\ last.cmds[i].box = last.cmds[j].box
       /\ last.cmds[i].box \in NamesOf(CandidatesOf(last.op, last.action))) => i = j

\* a part of the kind is present: the message has one and its first is not
\* empty
Present(parts) == parts # <<>> /\ parts[1] # Str("", 0)

\* the canonical body: the plaintext when present, else the HTML when
\* present, else the notice
CanonicalBody(raw) ==
  IF Present(raw.plain) THEN raw.plain[1]
  ELSE IF Present(raw.html) THEN raw.html[1]
  ELSE Str("Could not load email content.", 29)

\* the first k characters of string s
Prefix(s, k) == Str(s.text, Min(s.len, k))

SoftDeleteKeepsRow ==
  (/\ last.op = "delete"
   /\ ~last.permanent
   /\ RowBefore(last.id).folder # "trash") =>
    [RowBefore(last.id) EXCEPT !.folder = "trash"] \in emails

\* the request issued a copy command: it is a move into a mailbox
MovesByCopy == \E i \in 1..Len(last.cmds) : last.cmds[i].cmd = "copy"

\* C32: in a delete with permanent = false, an archive, a restore and a bulk
\* call that move a message by copy, every flag command comes after a copy
\* of the same UID that succeeded, every expunge after a flag command that
\* succeeded, and a message whose copy failed is left without the \Deleted
\* flag in its source mailbox.
FlagOnlyAfterCopy ==
  (last.op \in {"delete", "archive", "restore", "bulk"} /\ MovesByCopy) =>
    /\ \A j \in 1..Len(last.cmds) :
         last.cmds[j].cmd = "store" =>
           \E i \in 1..(j - 1) :
             /\ last.cmds[i].cmd = "copy" /\ last.cmds[i].r = "OK"
             /\ last.cmds[i].uid = last.cmds[j].uid
    /\ \A j \in 1..Len(last.cmds) :
         last.cmds[j].cmd = "expunge" =>
           \E i \in 1..(j - 1) : last.cmds[i].cmd = "store" /\ last.cmds[i].r = "OK"
    /\ \A i \in 1..Len(last.cmds) :
         (last.cmds[i].cmd = "copy" /\ last.cmds[i].r # "OK" /\ last.cmds[i].sel # "") =>
           \A m \in last.mboxes[last.cmds[i].sel] :
             m.uid = last.cmds[i].uid =>
               \E x \in mbox[last.cmds[i].sel] : x.msg = m.msg /\ ~x.del

\* the messages of the rows the request named
NamedMessages ==
  IF last.op = "bulk" THEN {RowBefore(id).msg : id \in last.ids}
  ELSE {RowBefore(last.id).msg}

\* the request left every message but those of its rows as it was on the
\* server: none removed, flagged or copied
OthersUntouched ==
  \A b \in DOMAIN mbox :
    /\ \A m \in last.mboxes[b] : m.msg \notin NamedMessages => m \in mbox[b]
    /\ \A m \in mbox[b] \ last.mboxes[b] : m.msg \in NamedMessages

\* C33: a delete, archive, restore or bulk call never flags, expunges or
\* copies a message other than those of the rows it names, and a single
\* call issues every copy and flag command that carries the row's UID while
\* the mailbox selected is the one in which the message was given that UID.
OnlyMirroredMessage ==
  /\ last.op \in {"delete", "archive", "restore", "bulk"} => OthersUntouched
  /\ (last.op \in {"delete", "archive", "restore"} /\ RowBefore(last.id).imap_uid # None) =>
       \A i \in 1..Len(last.cmds) :
         (last.cmds[i].cmd \in {"copy", "store"} /\ last.cmds[i].r = "OK") =>
           /\ last.cmds[i].uid = RowBefore(last.id).imap_uid
           /\ last.cmds[i].sel = RowBefore(last.id).box

\* C34: every row a sync stores with folder F was read from a mailbox that
\* folder F stands for; no row is stored with folder F for a message read
\* from INBOX because the select of F's mailbox failed or because F has no
\* mailbox name.
StoredFromOwnMailbox ==
  last.op \in {"sync", "sync_new"} =>
    \A e \in emails \ last.before :
      /\ e.folder = last.folder
      /\ e.box \in MailboxesOf(last.folder)

\* C35: the cursor an incremental sync of folder F computes is a UID that
\* the mailbox of F gave to a message a row of F was read from; it is never
\* the UID a row got in another mailbox before the row was moved into F.
CursorIsOwnUid ==
  (last.op = "sync_new" /\ last.cursor > 0 /\ last.box \in MailboxesOf(last.folder)) =>
    \E e \in last.before :
      /\ e.folder = last.folder
      /\ e.imap_uid = last.cursor
      /\ e.box = last.box

\* the highest UID of the rows of `folder` that have one, 0 when none has
HighestUid(db, folder) ==
  IF \A e \in db : e.folder = folder => e.imap_uid = None THEN 0
  ELSE SetMax({e.imap_uid : e \in {x \in db : x.folder = folder /\ x.imap_uid # None}})

\* C36: an incremental sync of a folder that has rows without UID completes
\* as it does without them: it does not answer 'error', and it searches
\* from the UID after the highest UID of the rows that have one (the whole
\* mailbox when none has one).
UidlessRowsIgnored ==
  (/\ last.op = "sync_new"
   /\ \E e \in last.before : e.folder = last.folder /\ e.imap_uid = None) =>
    /\ last.status # "error"
    /\ \E i \in 1..Len(last.cmds) :
         /\ last.cmds[i].cmd = "search"
         /\ last.cmds[i].uid = IF HighestUid(last.before, last.folder) = 0 THEN 0
                               ELSE HighestUid(last.before, last.folder) + 1

\* C37: after any sequence of syncs and of delete, archive, restore and bulk
\* calls, no message of the server has two rows; in particular a message
\* without Message-ID that a delete copied to the trash mailbox, where it
\* got a new UID, gets no second row from a sync of trash.
OneRowPerMessage ==
  \A a, b \in emails : (a.msg # 0 /\ a.msg = b.msg) => a = b

\* the request was a permanent delete that removed the row of message m
Purged(m) ==
  /\ last.op = "delete"
  /\ last.permanent
  /\ RowBefore(last.id).msg = m
  /\ ~\E e \in emails : e.id = last.id

\* the rows a sync that arrives now and meets no failure stores for message m
StoredAgain(c, m) == {e \in c.emails \ emails : e.msg = m}

\* C38: once a permanent delete has removed the row of a message, a full or
\* incremental sync that comes after it stores no row for that message,
\* also when the flag or the expunge of that delete failed and the message
\* is still on the server.  Stated for the sync that comes next.
PurgedStaysPurged ==
  \A m \in 1..MaxMsgs :
    Purged(m) =>
      \A folder \in SyncFolders :
        /\ \A limit \in 1..MaxLimit :
             StoredAgain(sync_emails(folder, limit, NoFault), m) = {}
        /\ StoredAgain(sync_new_emails(folder, NoFault), m) = {}

\* C39: a full or incremental sync only inserts: every row that was in the
\* table when the request arrived is in the table afterwards with the same
\* folder, UID and Message-ID, and the rows it stored have new primary
\* keys, whether the call succeeds or fails.
SyncOnlyInserts ==
  last.op \in {"sync", "sync_new"} =>
    /\ last.before \subseteq emails
    /\ \A e \in emails \ last.before : \A x \in last.before : x.id # e.id

\* C39, its case: a sync found a row of another folder than the one it was
\* asked for, under a UID of the mailbox it read, stored a row for another
\* message, and then failed.
FailedSyncKeptRows ==
  /\ last.op \in {"sync", "sync_new"}
  /\ last.status = "error"
  /\ last.count = 1
  /\ \E x \in last.before :
       /\ x.folder # last.folder
       /\ x.imap_uid \in Uids(last.mboxes, last.box)
       /\ x \in emails

\* C40: a full sync with limit L stores at most L rows and fetches no UID
\* but the L most recent UIDs of the mailbox it reads; with L = 0 it stores
\* nothing.
StoresAtMostLimit ==
  last.op = "sync" =>
    /\ last.count <= last.limit
    /\ Cardinality(emails \ last.before) <= last.limit
    /\ \A i \in 1..Len(last.cmds) :
         last.cmds[i].cmd = "fetch" =>
           \E k \in 1..Len(BatchOf(last.cmds[i].sel, last.limit)) :
             BatchOf(last.cmds[i].sel, last.limit)[k] = last.cmds[i].uid

====
